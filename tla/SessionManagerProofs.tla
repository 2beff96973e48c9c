------------------------ MODULE SessionManagerProofs ------------------------
(***************************************************************************)
(* The sessions for any number of threads, sessions and seconds: the list   *)
(* is sound, a pointer outlives its session only where calls overlap, a     *)
(* refusal is final.                                                        *)
(***************************************************************************)
EXTENDS SessionManager, SequenceTheorems, WellFoundedInduction, TLAPS

-----------------------------------------------------------------------------
(* Sequences, and the sessions of a set that are in the list *)

(* A set of numbers has a least one.                                        *)
LEMMA LeastOf ==
    ASSUME NEW I, I \subseteq Nat, I # {}
    PROVE  \E m \in I : \A j \in I : m <= j
<1> DEFINE Less == {p \in Nat \X Nat : p[1] < p[2]}
<1>1. IsWellFoundedOn(Less, Nat)
  BY NatLessThanWellFounded DEF OpToRel
<1>2. PICK m \in I : \A j \in I : ~(<<j, m>> \in Less)
  <2> HIDE DEF Less
  <2> QED BY <1>1, WFMin, Zenon
<1>3. \A j \in I : m <= j
  <2> SUFFICES ASSUME NEW j \in I PROVE m <= j
    OBVIOUS
  <2>1. <<j, m>> \notin Less /\ j \in Nat /\ m \in Nat
    BY <1>2
  <2> QED BY <2>1
<1>4. QED BY <1>3

(* What the recursive function of Only is at each index.                    *)
Kept(S, f, i) ==
    IF i = 0 THEN <<>>
    ELSE IF list[i] \in S THEN Append(f[i - 1], list[i]) ELSE f[i - 1]
Selects(S, n, f) == f = [i \in 0..n |-> Kept(S, f, i)]

(* There is such a function up to every index ...                           *)
LEMMA SelectionExists ==
    ASSUME NEW S, NEW n \in Nat
    PROVE  \E f : Selects(S, n, f)
<1> DEFINE Bad == {k \in Nat : ~\E f : Selects(S, k, f)}
<1>1. SUFFICES ASSUME Bad # {} PROVE FALSE
  OBVIOUS
<1>2. PICK m \in Bad : \A j \in Bad : m <= j
  BY <1>1, LeastOf
<1>3. CASE m = 0
  <2>1. Selects(S, 0, [i \in 0..0 |-> <<>>])
    BY DEF Selects, Kept
  <2>2. QED BY <1>2, <1>3, <2>1
<1>4. CASE m # 0
  <2>1. m - 1 \in Nat /\ m - 1 \notin Bad
    BY <1>2, <1>4
  <2>2. PICK g : Selects(S, m - 1, g)
    BY <2>1
  <2> DEFINE h == [i \in 0..m |-> IF i < m THEN g[i] ELSE Kept(S, g, m)]
  <2>3. \A i \in 0..m : h[i] = Kept(S, h, i)
    <3> SUFFICES ASSUME NEW i \in 0..m PROVE h[i] = Kept(S, h, i)
      OBVIOUS
    <3>1. i = 0 \/ (i - 1 \in 0..m /\ h[i - 1] = g[i - 1])
      BY <1>4
    <3>2. Kept(S, h, i) = Kept(S, g, i)
      BY <3>1 DEF Kept
    <3>3. i < m => g[i] = Kept(S, g, i)
      BY <2>2, <1>4 DEF Selects
    <3>4. QED BY <3>2, <3>3
  <2>4. Selects(S, m, h)
    BY <2>3 DEF Selects
  <2>5. QED BY <1>2, <2>4
<1>5. QED BY <1>3, <1>4

(* ... so that Only is the value of one at the last index.                  *)
LEMMA OnlySelects ==
    ASSUME NEW S, Len(list) \in Nat
    PROVE  \E f : Selects(S, Len(list), f) /\ Only(S) = f[Len(list)]
<1> DEFINE f == CHOOSE g : Selects(S, Len(list), g)
<1>1. Selects(S, Len(list), f)
  BY SelectionExists
<1>2. Only(S) = f[Len(list)]
  BY DEF Only, Selects, Kept
<1>3. QED BY <1>1, <1>2

NoRepeats == \A i, j \in DOMAIN list : list[i] = list[j] => i = j

(* It is made of sessions of the set that are in the list, each as often as *)
(* it is there.                                                             *)
LEMMA OnlyListed ==
    ASSUME NEW N, list \in Seq(N), NEW S
    PROVE  /\ Only(S) \in Seq(N)
           /\ \A i \in DOMAIN Only(S) : Only(S)[i] \in Listed \cap S
           /\ NoRepeats => \A i, j \in DOMAIN Only(S) : Only(S)[i] = Only(S)[j] => i = j
<1>1. Len(list) \in Nat /\ DOMAIN list = 1..Len(list)
  BY LenProperties
<1>2. PICK f : Selects(S, Len(list), f) /\ Only(S) = f[Len(list)]
  BY <1>1, OnlySelects
<1> DEFINE Part(k) == /\ f[k] \in Seq(N)
                      /\ \A i \in 1..Len(f[k]) : \E j \in 1..k : list[j] = f[k][i] /\ list[j] \in S
                      /\ NoRepeats => \A i, j \in 1..Len(f[k]) : f[k][i] = f[k][j] => i = j
           Bad == {k \in 0..Len(list) : ~Part(k)}
<1>3. Bad = {}
  <2> SUFFICES ASSUME Bad # {} PROVE FALSE
    OBVIOUS
  <2>1. Bad \subseteq Nat
    BY <1>1
  <2>2. PICK m \in Bad : \A j \in Bad : m <= j
    <3> HIDE DEF Bad
    <3> QED BY <2>1, LeastOf
  <2>3. m \in 0..Len(list) /\ ~Part(m) /\ f[m] = Kept(S, f, m)
    BY <1>2 DEF Selects
  <2>4. CASE m = 0
    <3>1. f[m] = <<>>
      BY <2>3, <2>4 DEF Kept
    <3>2. QED BY <2>3, <3>1
  <2>5. CASE m # 0
    <3>0. m - 1 \in 0..Len(list) /\ m \in 1..Len(list)
      BY <1>1, <2>3, <2>5
    <3>1. m - 1 \in 0..Len(list) /\ m - 1 \notin Bad /\ m \in 1..Len(list)
      <4> HIDE DEF Bad
      <4> QED BY <1>1, <2>2, <3>0
    <3>2. Part(m - 1)
      BY <3>1
    <3>3. list[m] \in N
      BY <3>1, ElementOfSeq
    <3> DEFINE g == f[m - 1]
    <3>4. /\ g \in Seq(N) /\ Len(g) \in Nat
          /\ \A i \in 1..Len(g) : \E j \in 1..(m - 1) : list[j] = g[i] /\ list[j] \in S
          /\ NoRepeats => \A i, j \in 1..Len(g) : g[i] = g[j] => i = j
      BY <3>2, LenProperties
    <3> HIDE DEF g
    <3>5. CASE list[m] \notin S
      <4>1. f[m] = g
        BY <2>3, <2>5, <3>5 DEF Kept, g
      <4>2. \A i \in 1..Len(g) : \E j \in 1..m : list[j] = g[i] /\ list[j] \in S
        BY <3>1, <3>4
      <4>3. QED BY <2>3, <3>4, <4>1, <4>2
    <3>6. CASE list[m] \in S
      <4>1. f[m] = Append(g, list[m])
        BY <2>3, <2>5, <3>6 DEF Kept, g
      <4>2. /\ f[m] \in Seq(N) /\ Len(f[m]) = Len(g) + 1
            /\ \A i \in 1..Len(g) : f[m][i] = g[i]
            /\ f[m][Len(g) + 1] = list[m]
        BY <3>3, <3>4, <4>1, AppendProperties
      <4>3. \A i \in 1..Len(f[m]) : \E j \in 1..m : list[j] = f[m][i] /\ list[j] \in S
        <5> SUFFICES ASSUME NEW i \in 1..Len(f[m])
                     PROVE  \E j \in 1..m : list[j] = f[m][i] /\ list[j] \in S
          OBVIOUS
        <5>1. CASE i = Len(g) + 1
          BY <3>1, <3>6, <4>2, <5>1
        <5>2. CASE i # Len(g) + 1
          <6>1. i \in 1..Len(g)
            BY <3>4, <4>2, <5>2
          <6>2. PICK j \in 1..(m - 1) : list[j] = g[i] /\ list[j] \in S
            BY <3>4, <6>1
          <6>3. j \in 1..m /\ f[m][i] = g[i]
            BY <3>1, <4>2, <6>1
          <6>4. QED BY <6>2, <6>3
        <5>3. QED BY <5>1, <5>2
      <4>4. NoRepeats => \A i, j \in 1..Len(f[m]) : f[m][i] = f[m][j] => i = j
        <5> SUFFICES ASSUME NoRepeats PROVE \A i, j \in 1..Len(f[m]) : f[m][i] = f[m][j] => i = j
          OBVIOUS
        <5>1. \A i \in 1..Len(g) : g[i] # list[m]
          <6> SUFFICES ASSUME NEW i \in 1..Len(g) PROVE g[i] # list[m]
            OBVIOUS
          <6>1. PICK j \in 1..(m - 1) : list[j] = g[i]
            BY <3>4
          <6>2. j \in DOMAIN list /\ m \in DOMAIN list /\ j # m
            BY <1>1, <3>1
          <6>3. QED BY <6>1, <6>2 DEF NoRepeats
        <5>2. \A i \in 1..Len(f[m]) : i \in 1..Len(g) \/ i = Len(g) + 1
          BY <3>4, <4>2
        <5>3. QED BY <3>4, <4>2, <5>1, <5>2
      <4>5. QED BY <2>3, <4>2, <4>3, <4>4
    <3>7. QED BY <3>5, <3>6
  <2>6. QED BY <2>4, <2>5
<1>4. Part(Len(list))
  BY <1>1, <1>3
<1>5. Only(S) \in Seq(N) /\ DOMAIN Only(S) = 1..Len(Only(S))
  BY <1>2, <1>4, LenProperties
<1>6. \A i \in 1..Len(Only(S)) : \E j \in DOMAIN list : list[j] = Only(S)[i] /\ list[j] \in S
  BY <1>1, <1>2, <1>4
<1>7. QED BY <1>2, <1>4, <1>5, <1>6 DEF Listed

-----------------------------------------------------------------------------
(* Types *)

States   == {"ACTIVE", "EXPIRED", "BANNED", "INVALID"}
Contents == [id : Ids, created : Ids, expires : Nat, state : States]

(* The places at which a thread works with the session it points to.        *)
Pointing == Uses \cup {"expiry", "free"}

Places == {"idle", "create", "expiry", "free", "cleanup"} \cup Uses
LocalTypes ==
    /\ pc \in [Threads -> Places]
    /\ sid \in [Threads -> Ids] /\ stamp \in [Threads -> Ids]
    /\ ptr \in [Threads -> DOMAIN node \cup {0}]
    /\ warned \in [Threads -> BOOLEAN] /\ overlap \in BOOLEAN
SharedTypes ==
    /\ now \in 0..MaxTime /\ connected \in BOOLEAN /\ misused \in BOOLEAN
    /\ node \in Seq(Contents) /\ list \in Seq(DOMAIN node) /\ freed \subseteq DOMAIN node
    /\ refused \subseteq Ids

TypeInv ==
    /\ LocalTypes /\ SharedTypes
    /\ \A c \in Threads : pc[c] \in Pointing => ptr[c] \in DOMAIN node

LEMMA TypesInv == TypeInv => TypeOK
BY DEF TypeInv, LocalTypes, SharedTypes, TypeOK, Contents, States, Places

LEMMA TypeInit == Init => TypeInv
<1> SUFFICES ASSUME Init PROVE TypeInv
  OBVIOUS
<1>1. 0 \in Ids
  BY SessionAssumption DEF Ids
<1>2. node = <<>> /\ list = <<>> /\ DOMAIN node = {}
  BY DEF Init
<1>3. node \in Seq(Contents) /\ list \in Seq(DOMAIN node)
  BY <1>2
<1>4. LocalTypes /\ SharedTypes
  BY <1>1, <1>3 DEF Init, LocalTypes, SharedTypes, Places, Ids
<1>5. QED BY <1>4 DEF TypeInv, Init, Pointing, Uses

LEMMA NodeTypes ==
    ASSUME TypeInv
    PROVE  /\ node \in Seq(Contents) /\ Len(node) \in Nat /\ DOMAIN node = 1..Len(node)
           /\ \A n \in DOMAIN node : node[n] \in Contents
           /\ Listed \subseteq DOMAIN node
           /\ \A c \in Threads : pc[c] \in Pointing => ptr[c] \in DOMAIN node
<1>1. node \in Seq(Contents)
  BY DEF TypeInv, SharedTypes
<1>2. Len(node) \in Nat /\ DOMAIN node = 1..Len(node) /\ \A n \in DOMAIN node : node[n] \in Contents
  BY <1>1, LenProperties, ElementOfSeq
<1>3. Listed \subseteq DOMAIN node
  <2>1. list \in Seq(DOMAIN node)
    BY DEF TypeInv, SharedTypes
  <2>2. DOMAIN list = 1..Len(list)
    BY <2>1, LenProperties
  <2>3. QED BY <2>1, <2>2, ElementOfSeq DEF Listed
<1>4. QED BY <1>1, <1>2, <1>3 DEF TypeInv

(* What a write through a pointer changes: one field of one session.        *)
SameLife(n)  == node'[n].created = node[n].created /\ node'[n].expires = node[n].expires
SameState(n) == node'[n].state = node[n].state
SameNodes    == /\ node' \in Seq(Contents) /\ DOMAIN node' = DOMAIN node
                /\ \A n \in DOMAIN node : node'[n].id = node[n].id

LEMMA StateWritten ==
    ASSUME TypeInv, NEW c \in Threads, pc[c] \in Pointing,
           NEW v \in States, Put(c, "state", v)
    PROVE  /\ SameNodes /\ node'[ptr[c]].state = v
           /\ \A n \in DOMAIN node : SameLife(n) /\ (n # ptr[c] => SameState(n))
<1>1. ptr[c] \in 1..Len(node) /\ node \in Seq(Contents) /\ DOMAIN node = 1..Len(node)
      /\ \A n \in DOMAIN node : node[n] \in Contents
  BY NodeTypes
<1> DEFINE r == [node[ptr[c]] EXCEPT !["state"] = v]
<1>2. /\ r \in Contents /\ r.state = v /\ r.id = node[ptr[c]].id
      /\ r.created = node[ptr[c]].created /\ r.expires = node[ptr[c]].expires
  BY <1>1 DEF Contents
<1>3. node' = [node EXCEPT ![ptr[c]] = r]
  BY DEF Put
<1> HIDE DEF r
<1>4. /\ node' \in Seq(Contents) /\ Len(node') = Len(node)
      /\ \A n \in 1..Len(node) : node'[n] = IF n = ptr[c] THEN r ELSE node[n]
  BY <1>1, <1>2, <1>3, ExceptSeq
<1>5. DOMAIN node' = DOMAIN node
  BY <1>1, <1>3
<1>6. QED BY <1>1, <1>2, <1>4, <1>5 DEF SameNodes, SameLife, SameState

LEMMA ExpiryWritten ==
    ASSUME TypeInv, NEW c \in Threads, pc[c] \in Pointing,
           NEW v \in Nat, Put(c, "expires", v)
    PROVE  /\ SameNodes /\ node'[ptr[c]].expires = v
           /\ node'[ptr[c]].created = node[ptr[c]].created
           /\ \A n \in DOMAIN node : SameState(n) /\ (n # ptr[c] => SameLife(n))
<1>1. ptr[c] \in 1..Len(node) /\ node \in Seq(Contents) /\ DOMAIN node = 1..Len(node)
      /\ \A n \in DOMAIN node : node[n] \in Contents
  BY NodeTypes
<1> DEFINE r == [node[ptr[c]] EXCEPT !["expires"] = v]
<1>2. /\ r \in Contents /\ r.expires = v /\ r.id = node[ptr[c]].id
      /\ r.created = node[ptr[c]].created /\ r.state = node[ptr[c]].state
  BY <1>1 DEF Contents
<1>3. node' = [node EXCEPT ![ptr[c]] = r]
  BY DEF Put
<1> HIDE DEF r
<1>4. /\ node' \in Seq(Contents) /\ Len(node') = Len(node)
      /\ \A n \in 1..Len(node) : node'[n] = IF n = ptr[c] THEN r ELSE node[n]
  BY <1>1, <1>2, <1>3, ExceptSeq
<1>5. DOMAIN node' = DOMAIN node
  BY <1>1, <1>3
<1>6. QED BY <1>1, <1>2, <1>4, <1>5 DEF SameNodes, SameLife, SameState

(* What a new session adds.                                                 *)
LEMMA Created ==
    ASSUME TypeInv, NEW c \in Threads, NEW t \in Timeouts, Create(c, t)
    PROVE  /\ node' \in Seq(Contents) /\ DOMAIN node' = DOMAIN node \cup {Len(node) + 1}
           /\ Len(node) + 1 \notin DOMAIN node
           /\ \A n \in DOMAIN node : node'[n] = node[n]
           /\ node'[Len(node) + 1] = [id |-> stamp[c], state |-> "ACTIVE",
                                      created |-> now, expires |-> now + t]
           /\ list' \in Seq(DOMAIN node') /\ Listed' = Listed \cup {Len(node) + 1}
           /\ NoRepeats => NoRepeats'
<1> DEFINE r == [id |-> stamp[c], state |-> "ACTIVE", created |-> now, expires |-> now + t]
           k == Len(node) + 1
<1>1. node \in Seq(Contents) /\ Len(node) \in Nat /\ DOMAIN node = 1..Len(node)
  BY NodeTypes
<1>2. r \in Contents
  <2>1. stamp[c] \in Ids /\ now \in Ids /\ now \in Nat /\ t \in Nat
    BY SessionAssumption DEF TypeInv, SharedTypes, LocalTypes, Ids
  <2>2. QED BY <2>1 DEF Contents, States
<1>3. node' = Append(node, r)
  BY DEF Create
<1> HIDE DEF r
<1>4. /\ node' \in Seq(Contents) /\ Len(node') = k
      /\ \A n \in 1..Len(node) : node'[n] = node[n]
      /\ node'[k] = r
  BY <1>1, <1>2, <1>3, AppendProperties
<1>5. DOMAIN node' = 1..k
  BY <1>4, LenProperties
<1>6. DOMAIN node' = DOMAIN node \cup {k} /\ k \notin DOMAIN node
  BY <1>1, <1>5
<1>7. list \in Seq(DOMAIN node') /\ list \in Seq(DOMAIN node)
  BY <1>6, SeqMonotonic DEF TypeInv, SharedTypes
<1>8. list' = <<k>> \o list
  BY <1>4 DEF Create
<1>9. Len(list) \in Nat /\ DOMAIN list = 1..Len(list)
  BY <1>7, LenProperties
<1>10. <<k>> \in Seq(DOMAIN node') /\ Len(<<k>>) = 1 /\ <<k>>[1] = k
  BY <1>6
<1>11. /\ list' \in Seq(DOMAIN node') /\ Len(list') = Len(list) + 1
       /\ \A i \in 1..(Len(list) + 1) : list'[i] = IF i = 1 THEN k ELSE list[i - 1]
  <2> HIDE DEF k
  <2>1. /\ list' \in Seq(DOMAIN node') /\ Len(list') = 1 + Len(list)
        /\ \A i \in 1..(1 + Len(list)) :
               list'[i] = IF i <= 1 THEN <<k>>[i] ELSE list[i - 1]
    BY <1>7, <1>8, <1>10, ConcatProperties
  <2>2. \A i \in 1..(1 + Len(list)) : (i <= 1) = (i = 1)
    BY <1>9
  <2>3. QED BY <1>9, <1>10, <2>1, <2>2
<1>12. DOMAIN list' = 1..(Len(list) + 1)
  BY <1>11, LenProperties
<1> HIDE DEF k
<1>13. \A i \in DOMAIN list' : \/ i = 1 /\ list'[i] = k
                               \/ i # 1 /\ i - 1 \in DOMAIN list /\ list'[i] = list[i - 1]
  BY <1>9, <1>11, <1>12
<1>14. Listed' = Listed \cup {k}
  <2>1. Listed' \subseteq Listed \cup {k}
    BY <1>13 DEF Listed
  <2>2. \A i \in DOMAIN list : i + 1 \in DOMAIN list' /\ list'[i + 1] = list[i]
    BY <1>9, <1>11, <1>12
  <2>3. 1 \in DOMAIN list' /\ list'[1] = k
    BY <1>9, <1>11, <1>12
  <2>4. QED BY <2>1, <2>2, <2>3 DEF Listed
<1>15. NoRepeats => NoRepeats'
  <2> SUFFICES ASSUME NoRepeats, NEW i \in DOMAIN list', NEW j \in DOMAIN list', list'[i] = list'[j]
               PROVE  i = j
    BY DEF NoRepeats
  <2>1. k \notin Listed
    BY <1>6, NodeTypes DEF k
  <2>2. \A x \in DOMAIN list : list[x] # k
    BY <2>1 DEF Listed
  <2>3. CASE i = 1 \/ j = 1
    BY <1>13, <2>2, <2>3
  <2>4. CASE i # 1 /\ j # 1
    <3>1. i - 1 = j - 1
      BY <1>13, <2>4 DEF NoRepeats
    <3>2. QED BY <3>1, <1>12, <1>9
  <2>5. QED BY <2>3, <2>4
<1>16. QED BY <1>4, <1>6, <1>1, <1>11, <1>14, <1>15 DEF r, k

(* What stays of the list when some sessions are taken out.                 *)
LEMMA TakenOut ==
    ASSUME TypeInv, NEW S, list' = Only(S)
    PROVE  /\ list' \in Seq(DOMAIN node) /\ Listed' \subseteq Listed \cap S
           /\ NoRepeats => NoRepeats'
<1>1. list \in Seq(DOMAIN node)
  BY DEF TypeInv, SharedTypes
<1>2. /\ list' \in Seq(DOMAIN node)
      /\ \A i \in DOMAIN list' : list'[i] \in Listed \cap S
      /\ NoRepeats => \A i, j \in DOMAIN list' : list'[i] = list'[j] => i = j
  BY <1>1, OnlyListed
<1>3. QED BY <1>2 DEF Listed, NoRepeats

(* The steps by what they write.                                            *)
Looking(c) ==
    \/ Login(c) \/ NoServer(c) \/ CleanupCall(c) \/ CheckState(c) \/ Accept(c)
    \/ \E id \in Ids, use \in Uses : FindFor(c, id, use) /\ (UNCHANGED connected \/ Connect)
Stating(c)   == Expire(c) \/ Ban(c) \/ Invalidate(c)
Unlisting(c) == Unlink(c) \/ Cleanup(c)

LEMMA ThreadCases ==
    ASSUME NEW c \in Threads, Thread(c)
    PROVE  \/ Looking(c) \/ Stating(c) \/ Refresh(c) \/ Unlisting(c) \/ Free(c)
           \/ \E t \in Timeouts : Create(c, t)
BY DEF Thread, Looking, Stating, Unlisting, ValidateCall, RefreshCall, BanCall, InvalidateCall,
       LogoutCall, Uses

(* A search ends at a listed session.                                       *)
LEMMA FoundListed ==
    ASSUME TypeInv, NEW i \in DOMAIN list
    PROVE  list[i] \in Listed /\ list[i] \in DOMAIN node
BY NodeTypes DEF Listed

LEMMA Returned ==
    ASSUME TypeInv, NEW c \in Threads, Return(c), DOMAIN node' = DOMAIN node
    PROVE  /\ LocalTypes' /\ pc'[c] = "idle"
           /\ \A d \in Threads \ {c} : pc'[d] = pc[d] /\ ptr'[d] = ptr[d]
<1>1. LocalTypes /\ 0 \in Ids
  BY SessionAssumption DEF TypeInv, Ids
<1>2. QED BY <1>1 DEF Return, Goto, LocalTypes, Places

LEMMA LookingTypes ==
    ASSUME TypeInv, NEW c \in Threads, Looking(c)
    PROVE  TypeInv'
<1>1. LocalTypes /\ SharedTypes /\ now \in Ids /\ 0 \in Ids
  BY SessionAssumption DEF TypeInv, Ids, SharedTypes
<1>2. node' = node /\ list' = list /\ freed' = freed /\ now' = now /\ refused' = refused
  BY DEF Looking, Login, NoServer, CleanupCall, CheckState, Accept, FindFor, sessions
<1>3. misused' \in BOOLEAN /\ connected' \in BOOLEAN
  <2>1. misused' = misused \/ misused' = (ptr[c] \in freed)
    BY DEF Looking, Login, NoServer, CleanupCall, CheckState, Accept, FindFor, Touch
  <2>2. connected' = connected \/ connected' = TRUE
    BY DEF Looking, Login, NoServer, CleanupCall, CheckState, Accept, Connect, ConnectFails
  <2>3. ASSUME misused' = (ptr[c] \in freed) PROVE misused' \in BOOLEAN
    BY <2>3
  <2>4. QED BY <1>1, <2>1, <2>2, <2>3, Zenon DEF SharedTypes
<1>4. SharedTypes'
  BY <1>1, <1>2, <1>3 DEF SharedTypes
<1>5. LocalTypes' /\ \A d \in Threads : pc'[d] \in Pointing => ptr'[d] \in DOMAIN node
  <2>1. CASE NoServer(c) \/ Accept(c) \/ (CheckState(c) /\ Return(c))
        \/ (\E id \in Ids, use \in Uses : FindFor(c, id, use) /\ Return(c))
    <3>1. Return(c)
      BY <2>1 DEF NoServer, Accept
    <3>2. QED BY <1>2, <3>1, Returned DEF TypeInv, Pointing, Uses
  <2>2. CASE Login(c) \/ CleanupCall(c)
    BY <1>1, <1>2, <2>2 DEF Login, CleanupCall, Goto, LocalTypes, Places, TypeInv, Pointing, Uses
  <2>3. CASE CheckState(c) /\ ~Return(c)
    BY <1>1, <1>2, <2>3 DEF CheckState, Goto, At, LocalTypes, Places, TypeInv, Pointing, Uses
  <2>4. ASSUME NEW id \in Ids, NEW use \in Uses, FindFor(c, id, use), ~Return(c)
        PROVE  LocalTypes' /\ \A d \in Threads : pc'[d] \in Pointing => ptr'[d] \in DOMAIN node
    <3>1. PICK i \in DOMAIN list :
               /\ Goto(c, use) /\ ptr' = [ptr EXCEPT ![c] = list[i]]
               /\ sid' = [sid EXCEPT ![c] = id]
               /\ warned' = [warned EXCEPT ![c] = use = "state" /\ id \in refused]
               /\ UNCHANGED stamp
      BY <2>4 DEF FindFor
    <3>2. list[i] \in DOMAIN node
      BY FoundListed
    <3>3. (use = "state" /\ id \in refused) \in BOOLEAN
      OBVIOUS
    <3>4. warned' \in [Threads -> BOOLEAN]
      BY <1>1, <3>1, <3>3 DEF LocalTypes
    <3>5. LocalTypes'
      BY <1>1, <1>2, <3>1, <3>2, <3>4 DEF Goto, LocalTypes, Places
    <3>6. QED BY <1>1, <3>1, <3>2, <3>5 DEF Goto, LocalTypes, TypeInv
  <2>5. QED BY <2>1, <2>2, <2>3, <2>4 DEF Looking
<1>6. QED BY <1>2, <1>4, <1>5 DEF TypeInv

LEMMA StatingWrites ==
    ASSUME TypeInv, NEW c \in Threads, Stating(c)
    PROVE  /\ pc[c] \in {"expiry", "ban", "invalidate"} /\ Return(c) /\ Refuse(c)
           /\ UNCHANGED <<now, connected, list, freed>> /\ misused' = (ptr[c] \in freed)
           /\ SameNodes /\ node'[ptr[c]].state \in States \ {"ACTIVE"}
           /\ \A n \in DOMAIN node : SameLife(n) /\ (n # ptr[c] => SameState(n))
<1>1. /\ pc[c] \in {"expiry", "ban", "invalidate"} /\ Return(c) /\ Refuse(c)
      /\ UNCHANGED <<now, connected, list, freed>> /\ misused' = (ptr[c] \in freed)
  BY DEF Stating, Expire, Ban, Invalidate, At, Touch
<1>2. PICK v \in States \ {"ACTIVE"} : Put(c, "state", v)
  BY DEF Stating, Expire, Ban, Invalidate, States
<1>3. pc[c] \in Pointing
  BY <1>1 DEF Pointing, Uses
<1>4. QED BY <1>1, <1>2, <1>3, StateWritten

LEMMA RefreshWrites ==
    ASSUME TypeInv, NEW c \in Threads, Refresh(c)
    PROVE  /\ pc[c] = "refresh" /\ Return(c)
           /\ UNCHANGED <<now, connected, list, freed, refused>> /\ misused' = (ptr[c] \in freed)
           /\ SameNodes /\ \A n \in DOMAIN node : SameState(n) /\ (n # ptr[c] => SameLife(n))
           /\ node'[ptr[c]].created = node[ptr[c]].created
           /\ node'[ptr[c]].expires = node[ptr[c]].created + ConfigTimeout
<1>1. /\ pc[c] = "refresh" /\ Return(c)
      /\ UNCHANGED <<now, connected, list, freed, refused>> /\ misused' = (ptr[c] \in freed)
      /\ Put(c, "expires", node[ptr[c]].created + ConfigTimeout)
  BY DEF Refresh, At, Touch
<1>2. pc[c] \in Pointing
  BY <1>1 DEF Pointing, Uses
<1>3. node[ptr[c]].created \in Nat
  BY <1>2, NodeTypes, SessionAssumption DEF Contents, Ids
<1>4. node[ptr[c]].created + ConfigTimeout \in Nat
  BY <1>3, SessionAssumption
<1>5. QED BY <1>1, <1>2, <1>4, ExpiryWritten

LEMMA TypeStep == TypeInv /\ [Next]_vars => TypeInv'
<1> SUFFICES ASSUME TypeInv, [Next]_vars PROVE TypeInv'
  OBVIOUS
<1>1. LocalTypes /\ SharedTypes /\ \A c \in Threads : pc[c] \in Pointing => ptr[c] \in DOMAIN node
  BY DEF TypeInv
<1>2. ASSUME NEW c \in Threads, Return(c), SharedTypes', DOMAIN node' = DOMAIN node
      PROVE  TypeInv'
  <2>1. /\ LocalTypes' /\ pc'[c] = "idle"
        /\ \A d \in Threads \ {c} : pc'[d] = pc[d] /\ ptr'[d] = ptr[d]
    BY <1>2, Returned
  <2>2. QED BY <1>1, <1>2, <2>1 DEF TypeInv, Pointing, Uses
<1>3. ASSUME NEW c \in Threads, Stating(c) PROVE TypeInv'
  <2>1. sid[c] \in Ids
    BY <1>1 DEF LocalTypes
  <2>2. SharedTypes' /\ DOMAIN node' = DOMAIN node /\ Return(c)
    <3>1. SameNodes /\ Return(c) /\ refused' = refused \cup {sid[c]}
          /\ UNCHANGED <<now, connected, list, freed>> /\ misused' = (ptr[c] \in freed)
      BY <1>3, StatingWrites DEF Refuse
    <3>2. misused' \in BOOLEAN
      BY <3>1
    <3>3. QED BY <1>1, <2>1, <3>1, <3>2 DEF SharedTypes, SameNodes
  <2>3. QED BY <1>2, <2>2
<1>4. ASSUME NEW c \in Threads, Refresh(c) PROVE TypeInv'
  <2>1. SharedTypes' /\ DOMAIN node' = DOMAIN node /\ Return(c)
    <3>1. SameNodes /\ Return(c) /\ UNCHANGED <<now, connected, list, freed, refused>>
          /\ misused' = (ptr[c] \in freed)
      BY <1>4, RefreshWrites
    <3>2. misused' \in BOOLEAN
      BY <3>1
    <3>3. QED BY <1>1, <3>1, <3>2 DEF SharedTypes, SameNodes
  <2>2. QED BY <1>2, <2>1
<1>5. ASSUME NEW c \in Threads, Unlisting(c) PROVE TypeInv'
  <2>1. list' \in Seq(DOMAIN node)
    BY <1>5, TakenOut DEF Unlisting, Unlink, Cleanup
  <2>2. freed' \subseteq DOMAIN node /\ UNCHANGED <<now, connected, node, misused, refused>>
    BY <1>1, <1>5, NodeTypes DEF Unlisting, Unlink, Cleanup, SharedTypes
  <2>3. SharedTypes'
    BY <1>1, <2>1, <2>2 DEF SharedTypes
  <2>4. CASE Cleanup(c)
    BY <1>2, <2>2, <2>3, <2>4 DEF Cleanup
  <2>5. CASE Unlink(c)
    <3>1. LocalTypes'
      BY <1>1, <2>5, <2>2 DEF Unlink, Goto, LocalTypes, Places
    <3>2. \A d \in Threads : pc'[d] \in Pointing => ptr'[d] \in DOMAIN node'
      BY <1>1, <2>5, <2>2 DEF Unlink, Goto, At, LocalTypes, Pointing, Uses
    <3>3. QED BY <2>3, <3>1, <3>2 DEF TypeInv
  <2>6. QED BY <1>5, <2>4, <2>5 DEF Unlisting
<1>6. ASSUME NEW c \in Threads, Free(c) PROVE TypeInv'
  <2>1. ptr[c] \in DOMAIN node
    BY <1>1, <1>6 DEF Free, At, Pointing
  <2>2. SharedTypes' /\ DOMAIN node' = DOMAIN node /\ Return(c)
    BY <1>1, <1>6, <2>1 DEF Free, Touch, SharedTypes
  <2>3. QED BY <1>2, <2>2
<1>7. ASSUME NEW c \in Threads, NEW t \in Timeouts, Create(c, t) PROVE TypeInv'
  <2>1. SharedTypes' /\ DOMAIN node \subseteq DOMAIN node'
    BY <1>1, <1>7, Created DEF Create, SharedTypes
  <2>2. LocalTypes' /\ pc'[c] = "idle"
        /\ \A d \in Threads \ {c} : pc'[d] = pc[d] /\ ptr'[d] = ptr[d]
    <3>1. 0 \in Ids
      BY SessionAssumption DEF Ids
    <3>2. QED BY <1>1, <1>7, <2>1, <3>1 DEF Create, Return, Goto, LocalTypes, Places
  <2>3. QED BY <1>1, <2>1, <2>2 DEF TypeInv, Pointing, Uses
<1>8. CASE Tick \/ Disconnect
  <2>1. SharedTypes' /\ UNCHANGED <<node, local, overlap>>
    <3>1. now' \in 0..MaxTime
      BY <1>1, <1>8, SessionAssumption DEF Tick, Disconnect, SharedTypes
    <3>2. /\ connected' = connected \/ connected' = FALSE
          /\ UNCHANGED <<list, node, freed, misused, local, refused, overlap>>
      BY <1>8 DEF Tick, Disconnect, sessions
    <3>3. connected' \in BOOLEAN /\ misused' \in BOOLEAN
      BY <1>1, <3>2, Zenon DEF SharedTypes
    <3>4. QED BY <1>1, <3>1, <3>2, <3>3 DEF SharedTypes
  <2>2. QED BY <1>1, <2>1 DEF LocalTypes, local, TypeInv
<1>9. CASE Shutdown
  <2>1. Listed \subseteq DOMAIN node
    BY NodeTypes
  <2>2. SharedTypes' /\ UNCHANGED <<node, local, overlap>>
    BY <1>1, <1>9, <2>1 DEF Shutdown, SharedTypes
  <2>3. QED BY <1>1, <2>2 DEF LocalTypes, local, TypeInv
<1>10. CASE UNCHANGED vars
  BY <1>1, <1>10 DEF vars, sessions, local, LocalTypes, SharedTypes, TypeInv
<1>11. QED
  BY <1>3, <1>4, <1>5, <1>6, <1>7, <1>8, <1>9, <1>10, LookingTypes, ThreadCases DEF Next

-----------------------------------------------------------------------------
(* The list *)

(* No freed session is listed, also not by the next step of a thread that    *)
(* has unlinked one; no session is listed twice.                            *)
Sound == /\ NoRepeats /\ \A n \in Listed : n \notin freed
         /\ \A c \in Threads : pc[c] = "free" => ptr[c] \notin Listed
ListInv == TypeInv /\ Sound

LEMMA ListInit == Init => ListInv
<1> SUFFICES ASSUME Init PROVE ListInv
  OBVIOUS
<1>1. DOMAIN list = {} /\ \A c \in Threads : pc[c] # "free"
  BY DEF Init
<1>2. QED BY <1>1, TypeInit DEF ListInv, Sound, NoRepeats, Listed

(* Steps that leave the list and the freed sessions alone, and bring no     *)
(* thread to the point where it frees one.                                  *)
Aside == /\ UNCHANGED <<list, freed>>
         /\ \A c \in Threads : pc'[c] = "free" => pc[c] = "free" /\ ptr'[c] = ptr[c]

LEMMA AsideKeeps == ASSUME Sound, Aside PROVE Sound'
BY DEF Sound, Aside, NoRepeats, Listed

LEMMA LookingAside ==
    ASSUME TypeInv, NEW c \in Threads, Looking(c)
    PROVE  Aside
<1>1. UNCHANGED <<list, freed>>
  BY DEF Looking, Login, NoServer, CleanupCall, CheckState, Accept, FindFor, sessions
<1>2. pc \in [Threads -> Places] /\ ptr \in [Threads -> DOMAIN node \cup {0}]
  BY DEF TypeInv, LocalTypes
<1>3. /\ pc'[c] # "free" /\ \A d \in Threads \ {c} : pc'[d] = pc[d]
  BY <1>2 DEF Looking, Login, NoServer, CleanupCall, CheckState, Accept, FindFor, Return, Goto, Uses
<1>4. \A d \in Threads \ {c} : ptr'[d] = ptr[d]
  BY <1>2 DEF Looking, Login, NoServer, CleanupCall, CheckState, Accept, FindFor, Return
<1>5. QED BY <1>1, <1>3, <1>4 DEF Aside

LEMMA ReturnAside ==
    ASSUME TypeInv, NEW c \in Threads, Return(c), UNCHANGED <<list, freed>>
    PROVE  Aside
BY DEF TypeInv, LocalTypes, Return, Goto, Aside

LEMMA ListStep == ListInv /\ [Next]_vars => ListInv'
<1> SUFFICES ASSUME ListInv, [Next]_vars PROVE Sound'
  BY TypeStep DEF ListInv
<1>1. TypeInv /\ Sound
  BY DEF ListInv
<1>2. pc \in [Threads -> Places] /\ ptr \in [Threads -> DOMAIN node \cup {0}]
  BY <1>1 DEF TypeInv, LocalTypes
<1>3. ASSUME NEW c \in Threads, Stating(c) \/ Refresh(c) PROVE Sound'
  BY <1>1, <1>3, StatingWrites, RefreshWrites, ReturnAside, AsideKeeps
<1>4. ASSUME NEW c \in Threads, Unlink(c) PROVE Sound'
  <2>1. list' = Only(Listed \ {ptr[c]}) /\ freed' = freed /\ ptr' = ptr
        /\ pc' = [pc EXCEPT ![c] = "free"]
    BY <1>4 DEF Unlink, Goto
  <2>2. Listed' \subseteq Listed \ {ptr[c]} /\ NoRepeats'
    BY <1>1, <2>1, TakenOut DEF Sound
  <2>3. QED BY <1>1, <1>2, <2>1, <2>2 DEF Sound
<1>5. ASSUME NEW c \in Threads, Cleanup(c) PROVE Sound'
  <2> DEFINE Old(n) == stamp[c] > node[n].expires
  <2>1. /\ list' = Only({n \in Listed : ~Old(n)})
        /\ freed' = freed \cup {n \in Listed : Old(n)} /\ Return(c)
    BY <1>5 DEF Cleanup
  <2> HIDE DEF Old
  <2>2. Listed' \subseteq {n \in Listed : ~Old(n)} /\ NoRepeats'
    BY <1>1, <2>1, TakenOut DEF Sound
  <2>3. \A d \in Threads : pc'[d] = "free" => pc[d] = "free" /\ ptr'[d] = ptr[d]
    BY <1>2, <2>1 DEF Return, Goto
  <2>4. QED BY <1>1, <2>1, <2>2, <2>3 DEF Sound
<1>6. ASSUME NEW c \in Threads, Free(c) PROVE Sound'
  <2>1. pc[c] = "free" /\ freed' = freed \cup {ptr[c]} /\ list' = list /\ Return(c)
    BY <1>6 DEF Free, At
  <2>2. \A d \in Threads : pc'[d] = "free" => pc[d] = "free" /\ ptr'[d] = ptr[d]
    BY <1>2, <2>1 DEF Return, Goto
  <2>3. QED BY <1>1, <2>1, <2>2 DEF Sound, NoRepeats, Listed
<1>7. ASSUME NEW c \in Threads, NEW t \in Timeouts, Create(c, t) PROVE Sound'
  <2>1. Listed' = Listed \cup {Len(node) + 1} /\ NoRepeats' /\ Len(node) + 1 \notin DOMAIN node
    BY <1>1, <1>7, Created DEF Sound
  <2>2. freed' = freed /\ Return(c) /\ freed \subseteq DOMAIN node
    BY <1>1, <1>7 DEF Create, TypeInv, SharedTypes
  <2>3. \A d \in Threads : pc'[d] = "free" => pc[d] = "free" /\ ptr'[d] = ptr[d]
    BY <1>2, <2>2 DEF Return, Goto
  <2>4. \A d \in Threads : pc[d] = "free" => ptr[d] \in DOMAIN node
    BY <1>1 DEF TypeInv, Pointing
  <2>5. QED BY <1>1, <2>1, <2>2, <2>3, <2>4 DEF Sound
<1>8. CASE Tick \/ Disconnect \/ UNCHANGED vars
  BY <1>1, <1>8, AsideKeeps DEF Tick, Disconnect, vars, sessions, local, Aside
<1>9. CASE Shutdown
  <2>1. list' = <<>> /\ pc' = pc /\ \A c \in Threads : pc[c] = "idle"
    BY <1>9 DEF Shutdown, local, At
  <2>2. DOMAIN list' = {}
    BY <2>1
  <2>3. QED BY <2>1, <2>2 DEF Sound, NoRepeats, Listed
<1>10. QED
  BY <1>1, <1>3, <1>4, <1>5, <1>6, <1>7, <1>8, <1>9, LookingAside, AsideKeeps, ThreadCases
  DEF Next, Unlisting

(* The variables keep their types, and the list stays sound whatever the    *)
(* threads do up to the first use of a dangling pointer.                    *)
THEOREM SessionsListIntact == Spec => []ListIntact
<1>1. ListInv => ListIntact
  BY TypesInv DEF ListInv, Sound, NoRepeats, Listed, ListIntact
<1>2. QED BY ListInit, ListStep, <1>1, PTL DEF Spec

-----------------------------------------------------------------------------
(* Dangling pointers *)

(* As long as calls do not overlap at most one is under way, and the session *)
(* it points to is not freed.                                               *)
Alone == ~overlap =>
            /\ ~misused
            /\ \A c, d \in Threads : pc[c] # "idle" /\ pc[d] # "idle" => c = d
            /\ \A c \in Threads : pc[c] \in Pointing => ptr[c] \notin freed
AloneInv == ListInv /\ Alone

LEMMA AloneInit == Init => AloneInv
BY ListInit DEF Init, AloneInv, Alone, Pointing, Uses

LEMMA AloneStep == AloneInv /\ [Next]_vars => AloneInv'
<1> SUFFICES ASSUME AloneInv, [Next]_vars PROVE Alone'
  BY ListStep DEF AloneInv
<1>1. TypeInv /\ Sound /\ Alone
  BY DEF AloneInv, ListInv
<1>2. /\ pc \in [Threads -> Places] /\ ptr \in [Threads -> DOMAIN node \cup {0}]
      /\ overlap \in BOOLEAN /\ misused \in BOOLEAN
  BY <1>1 DEF TypeInv, LocalTypes, SharedTypes
<1>3. SUFFICES ASSUME ~overlap'
               PROVE  /\ ~misused'
                      /\ \A c, d \in Threads : pc'[c] # "idle" /\ pc'[d] # "idle" => c = d
                      /\ \A c \in Threads : pc'[c] \in Pointing => ptr'[c] \notin freed'
  BY DEF Alone
(* A thread that moves while no calls overlap is the only one in a call.    *)
<1>4. ASSUME NEW c \in Threads, NEW place, Goto(c, place)
      PROVE  /\ pc'[c] = place
             /\ \A d \in Threads \ {c} : pc[d] = "idle" /\ pc'[d] = "idle"
             /\ pc[c] # "idle" => ~overlap
  BY <1>2, <1>3, <1>4 DEF Goto
<1>5. ASSUME NEW c \in Threads, Return(c), ~misused' PROVE Alone'
  BY <1>4, <1>5 DEF Return, Alone, Pointing, Uses
<1>6. ASSUME NEW c \in Threads, pc[c] # "idle", pc[c] \in Pointing, Return(c),
             misused' = (ptr[c] \in freed)
      PROVE  Alone'
  BY <1>1, <1>4, <1>5, <1>6 DEF Return, Alone
<1>7. ASSUME NEW c \in Threads, ~misused PROVE Looking(c) => Alone'
  <2> SUFFICES ASSUME Looking(c) PROVE Alone'
    OBVIOUS
  <2>1. CASE Login(c) \/ CleanupCall(c)
    <3>1. PICK place \in {"create", "cleanup"} : Goto(c, place)
      BY <2>1 DEF Login, CleanupCall
    <3>2. QED BY <1>4, <1>7, <2>1, <3>1 DEF Login, CleanupCall, Alone, Pointing, Uses
  <2>2. CASE NoServer(c)
    BY <1>5, <1>7, <2>2 DEF NoServer
  <2>3. CASE CheckState(c) \/ Accept(c)
    <3>1. pc[c] # "idle" /\ pc[c] \in Pointing /\ misused' = (ptr[c] \in freed)
          /\ freed' = freed
      BY <2>3 DEF CheckState, Accept, At, Touch, Pointing, Uses, sessions
    <3>2. CASE Return(c)
      BY <1>6, <3>1, <3>2
    <3>3. CASE ~Return(c)
      <4>1. Goto(c, "expiry") /\ ptr' = ptr
        BY <2>3, <3>3 DEF CheckState, Accept
      <4>2. ~overlap /\ ptr[c] \notin freed
        BY <1>1, <1>4, <3>1, <4>1 DEF Alone
      <4>3. QED BY <1>4, <3>1, <4>1, <4>2 DEF Alone, Pointing, Uses
    <3>4. QED BY <3>2, <3>3
  <2>4. ASSUME NEW id \in Ids, NEW use \in Uses, FindFor(c, id, use) PROVE Alone'
    <3>1. misused' = misused /\ freed' = freed
      BY <2>4 DEF FindFor, sessions
    <3>2. CASE Return(c)
      BY <1>5, <1>7, <3>1, <3>2
    <3>3. CASE ~Return(c)
      <4>1. PICK i \in DOMAIN list : Goto(c, use) /\ ptr' = [ptr EXCEPT ![c] = list[i]]
        BY <2>4, <3>3 DEF FindFor
      <4>2. ptr'[c] \notin freed'
        BY <1>1, <1>2, <3>1, <4>1, FoundListed DEF Sound
      <4>3. QED BY <1>4, <1>7, <3>1, <4>1, <4>2 DEF Alone, Pointing, Uses
    <3>4. QED BY <3>2, <3>3
  <2>5. QED BY <2>1, <2>2, <2>3, <2>4 DEF Looking
<1>8. ASSUME NEW c \in Threads, Stating(c) \/ Refresh(c) PROVE Alone'
  <2>1. pc[c] \in {"expiry", "ban", "invalidate", "refresh"} /\ Return(c)
        /\ misused' = (ptr[c] \in freed)
    BY <1>1, <1>8, StatingWrites, RefreshWrites
  <2>2. QED BY <1>6, <2>1 DEF Pointing, Uses
<1>9. ASSUME NEW c \in Threads, Unlink(c) PROVE Alone'
  <2>1. /\ pc[c] = "unlink" /\ ~misused' /\ Goto(c, "free") /\ ptr' = ptr /\ freed' = freed
    BY <1>9 DEF Unlink, At
  <2>2. ptr[c] \notin freed
    BY <1>1, <1>4, <2>1 DEF Alone, Pointing, Uses
  <2>3. QED BY <1>4, <2>1, <2>2 DEF Alone, Pointing, Uses
<1>10. ASSUME NEW c \in Threads, Cleanup(c) \/ \E t \in Timeouts : Create(c, t) PROVE Alone'
  <2>1. Return(c) /\ ~misused /\ misused' = misused
    BY <1>10 DEF Cleanup, Create, At
  <2>2. ~misused'
    BY <2>1, Zenon
  <2>3. QED BY <1>5, <2>1, <2>2
<1>11. ASSUME NEW c \in Threads, Free(c) PROVE Alone'
  BY <1>6, <1>11 DEF Free, At, Touch, Pointing
<1>12. ASSUME Tick \/ Disconnect \/ UNCHANGED vars PROVE Alone'
  <2>1. UNCHANGED <<pc, ptr, freed, misused, overlap>>
    BY <1>12 DEF Tick, Disconnect, vars, sessions, local
  <2>2. QED BY <1>1, <1>3, <2>1 DEF Alone
<1>13. ASSUME Shutdown PROVE Alone'
  <2>1. pc' = pc /\ misused' = misused /\ overlap' = overlap /\ \A c \in Threads : pc[c] = "idle"
    BY <1>13 DEF Shutdown, local, At
  <2>2. QED BY <1>1, <1>3, <2>1 DEF Alone, Pointing, Uses
<1>14. ASSUME NEW c \in Threads, Looking(c) PROVE ~misused
  BY <1>14 DEF Looking, Login, NoServer, CleanupCall, CheckState, Accept, FindFor, At
<1>15. Alone'
  <2>1. ASSUME NEW c \in Threads, Thread(c) PROVE Alone'
    <3>1. \/ Looking(c) \/ Stating(c) \/ Refresh(c) \/ Unlisting(c) \/ Free(c)
          \/ \E t \in Timeouts : Create(c, t)
      BY <2>1, ThreadCases
    <3>2. QED BY <1>7, <1>8, <1>9, <1>10, <1>11, <1>14, <3>1, Zenon DEF Unlisting
  <2>2. QED BY <1>12, <1>13, <2>1, Zenon DEF Next
<1>16. QED BY <1>3, <1>15 DEF Alone

(* A freed session is touched only where two calls run at once.             *)
THEOREM SessionsNoMisuse == Spec => []NoMisuse
<1>1. AloneInv => NoMisuse
  BY DEF AloneInv, Alone, NoMisuse
<1>2. QED BY AloneInit, AloneStep, <1>1, PTL DEF Spec

-----------------------------------------------------------------------------
(* Refusals, where no two sessions are created in one second *)

(* The ids of the sessions differ, and from those about to be created; a    *)
(* thread points to a session of the id it was called with; what was        *)
(* refused is known by its state, and a warned thread is still before the   *)
(* test of the state.                                                       *)
NewIds == \A c \in Threads : pc[c] = "create" =>
              /\ \A n \in DOMAIN node : node[n].id # stamp[c]
              /\ \A d \in Threads : pc[d] = "create" /\ stamp[d] = stamp[c] => c = d
OneId  == \A n, m \in DOMAIN node : node[n].id = node[m].id => n = m
Called == \A c \in Threads : pc[c] \in Pointing => node[ptr[c]].id = sid[c]
Known  == \A id \in refused : \E n \in DOMAIN node : node[n].id = id /\ node[n].state # "ACTIVE"
Warned == \A c \in Threads : warned[c] => pc[c] = "state" /\ sid[c] \in refused
IdInv  == TypeInv /\ NewIds /\ OneId /\ Called /\ Known /\ Warned

LEMMA IdInit == Init => IdInv
<1> SUFFICES ASSUME Init PROVE IdInv
  OBVIOUS
<1>1. DOMAIN node = {} /\ refused = {}
  BY DEF Init
<1>2. QED BY <1>1, TypeInit
          DEF Init, IdInv, NewIds, OneId, Called, Known, Warned, Pointing, Uses

(* Steps that leave the ids alone and start no session.                     *)
LEMMA IdsKept ==
    ASSUME TypeInv, NewIds, OneId, DOMAIN node' = DOMAIN node,
           \A n \in DOMAIN node : node'[n].id = node[n].id,
           \A c \in Threads : pc'[c] = "create" => pc[c] = "create" /\ stamp'[c] = stamp[c]
    PROVE  NewIds' /\ OneId'
BY DEF NewIds, OneId

(* Steps by which a thread returns, whatever it wrote into a session.       *)
LEMMA IdsReturn ==
    ASSUME IdInv, NEW c \in Threads, Return(c), DOMAIN node' = DOMAIN node,
           \A n \in DOMAIN node : node'[n].id = node[n].id,
           refused \subseteq refused',
           \A id \in refused' : \E n \in DOMAIN node : node[n].id = id /\ node'[n].state # "ACTIVE"
    PROVE  NewIds' /\ OneId' /\ Called' /\ Known' /\ Warned'
<1> USE DEF IdInv
<1>1. /\ pc' = [pc EXCEPT ![c] = "idle"] /\ warned' = [warned EXCEPT ![c] = FALSE]
      /\ sid' = [sid EXCEPT ![c] = 0] /\ ptr' = [ptr EXCEPT ![c] = 0]
      /\ stamp' = [stamp EXCEPT ![c] = 0] /\ LocalTypes
  BY DEF Return, Goto, TypeInv
<1>2. \A d \in Threads \ {c} : /\ pc'[d] = pc[d] /\ sid'[d] = sid[d] /\ ptr'[d] = ptr[d]
                               /\ warned'[d] = warned[d] /\ stamp'[d] = stamp[d]
  BY <1>1 DEF LocalTypes
<1>3. pc'[c] = "idle" /\ ~warned'[c]
  BY <1>1 DEF LocalTypes
<1>4. NewIds' /\ OneId'
  BY <1>2, <1>3, IdsKept
<1>5. Called'
  <2> SUFFICES ASSUME NEW d \in Threads, pc'[d] \in Pointing PROVE node'[ptr'[d]].id = sid'[d]
    BY DEF Called
  <2>1. d # c
    BY <1>3 DEF Pointing, Uses
  <2>2. pc[d] \in Pointing /\ ptr'[d] = ptr[d] /\ sid'[d] = sid[d] /\ ptr[d] \in DOMAIN node
    BY <1>2, <2>1, NodeTypes
  <2>3. QED BY <2>2 DEF Called
<1>6. Known'
  BY DEF Known
<1>7. Warned'
  BY <1>2, <1>3 DEF Warned
<1>8. QED BY <1>4, <1>5, <1>6, <1>7

LEMMA IdStep == Crowded = FALSE /\ IdInv /\ [Next]_vars => IdInv'
<1> SUFFICES ASSUME Crowded = FALSE, IdInv, [Next]_vars
             PROVE  NewIds' /\ OneId' /\ Called' /\ Known' /\ Warned'
  BY TypeStep DEF IdInv
<1> DEFINE Goal == NewIds' /\ OneId' /\ Called' /\ Known' /\ Warned'
<1>1. TypeInv /\ NewIds /\ OneId /\ Called /\ Known /\ Warned /\ LocalTypes
  BY DEF IdInv, TypeInv
<1>2. ASSUME NEW c \in Threads, Return(c), UNCHANGED <<node, refused>> PROVE Goal
  BY <1>1, <1>2, IdsReturn DEF Known
(* What leaves sessions, threads and refusals alone leaves all of it alone. *)
<1>3. ASSUME UNCHANGED <<node, refused, local>> PROVE Goal
  BY <1>1, <1>3 DEF local, NewIds, OneId, Called, Known, Warned
<1>4. ASSUME NEW c \in Threads, Login(c) PROVE Goal
  <2>1. /\ \A n \in DOMAIN node : node[n].id # now
        /\ \A d \in Threads : pc[d] = "create" => stamp[d] # now
        /\ pc[c] = "idle" /\ pc' = [pc EXCEPT ![c] = "create"] /\ stamp' = [stamp EXCEPT ![c] = now]
        /\ UNCHANGED <<node, sid, ptr, warned, refused>>
    BY <1>4 DEF Login, At, Goto, sessions
  <2>2. NewIds'
    BY <1>1, <2>1 DEF NewIds, LocalTypes
  <2>3. Called' /\ Warned'
    BY <1>1, <2>1 DEF Called, Warned, LocalTypes, Pointing, Uses
  <2>4. OneId' /\ Known'
    BY <1>1, <2>1 DEF OneId, Known
  <2>5. QED BY <2>2, <2>3, <2>4
<1>5. ASSUME NEW c \in Threads, CleanupCall(c) PROVE Goal
  <2>1. /\ pc[c] = "idle" /\ pc' = [pc EXCEPT ![c] = "cleanup"] /\ stamp' = [stamp EXCEPT ![c] = now]
        /\ UNCHANGED <<node, sid, ptr, warned, refused>>
    BY <1>5 DEF CleanupCall, At, Goto, sessions
  <2>2. NewIds' /\ Called' /\ Warned'
    BY <1>1, <2>1 DEF NewIds, Called, Warned, LocalTypes, Pointing, Uses
  <2>3. OneId' /\ Known'
    BY <1>1, <2>1 DEF OneId, Known
  <2>4. QED BY <2>2, <2>3
(* A thread is warned only if the session it found is of a refused id.      *)
<1>6. ASSUME NEW c \in Threads, NEW id \in Ids, NEW use \in Uses, FindFor(c, id, use) PROVE Goal
  <2>1. pc[c] = "idle" /\ UNCHANGED <<node, refused>>
    BY <1>6 DEF FindFor, At, sessions
  <2>2. CASE Return(c)
    BY <1>2, <2>1, <2>2
  <2>3. CASE ~Return(c)
    <3>1. PICK i \in DOMAIN list :
               /\ FirstMatch(i, id) /\ pc' = [pc EXCEPT ![c] = use]
               /\ ptr' = [ptr EXCEPT ![c] = list[i]] /\ sid' = [sid EXCEPT ![c] = id]
               /\ warned' = [warned EXCEPT ![c] = use = "state" /\ id \in refused]
               /\ UNCHANGED stamp
      BY <1>6, <2>3 DEF FindFor, Goto
    <3>2. node[list[i]].id = id
      BY <3>1 DEF FirstMatch, Matches
    <3>3. Called'
      BY <1>1, <2>1, <3>1, <3>2 DEF Called, LocalTypes
    <3>4. NewIds'
      BY <1>1, <2>1, <3>1 DEF NewIds, LocalTypes, Uses
    <3>5. Warned'
      BY <1>1, <2>1, <3>1 DEF Warned, LocalTypes
    <3>6. OneId' /\ Known'
      BY <1>1, <2>1 DEF OneId, Known
    <3>7. QED BY <3>3, <3>4, <3>5, <3>6
  <2>4. QED BY <2>2, <2>3
(* An active session is not one that was refused.                           *)
<1>7. ASSUME NEW c \in Threads, CheckState(c) PROVE Goal
  <2>1. pc[c] = "state" /\ UNCHANGED <<node, refused>>
    BY <1>7 DEF CheckState, At, sessions
  <2>2. CASE Return(c)
    BY <1>2, <2>1, <2>2
  <2>3. CASE ~Return(c)
    <3>1. /\ node[ptr[c]].state = "ACTIVE" /\ pc' = [pc EXCEPT ![c] = "expiry"]
          /\ UNCHANGED <<sid, ptr, stamp, warned>>
      BY <1>7, <2>3 DEF CheckState, Goto
    <3>2. ~warned[c]
      <4>1. SUFFICES ASSUME warned[c] PROVE FALSE
        OBVIOUS
      <4>2. PICK n \in DOMAIN node : node[n].id = sid[c] /\ node[n].state # "ACTIVE"
        BY <1>1, <4>1 DEF Warned, Known
      <4>3. node[ptr[c]].id = sid[c] /\ ptr[c] \in DOMAIN node
        BY <1>1, <2>1, NodeTypes DEF Called, Pointing, Uses
      <4>4. QED BY <1>1, <3>1, <4>2, <4>3 DEF OneId
    <3>3. NewIds' /\ Called'
      BY <1>1, <2>1, <3>1 DEF NewIds, Called, LocalTypes, Pointing, Uses
    <3>4. Warned'
      BY <1>1, <2>1, <3>1, <3>2 DEF Warned, LocalTypes
    <3>5. OneId' /\ Known'
      BY <1>1, <2>1 DEF OneId, Known
    <3>6. QED BY <3>3, <3>4, <3>5
  <2>4. QED BY <2>2, <2>3
<1>8. ASSUME NEW c \in Threads, Stating(c) PROVE Goal
  <2>1. /\ pc[c] \in Pointing /\ Return(c) /\ refused' = refused \cup {sid[c]}
        /\ SameNodes /\ node'[ptr[c]].state # "ACTIVE"
        /\ \A n \in DOMAIN node : n # ptr[c] => SameState(n)
    BY <1>1, <1>8, StatingWrites DEF Refuse, Pointing, Uses
  <2>2. ptr[c] \in DOMAIN node /\ node[ptr[c]].id = sid[c]
    BY <1>1, <2>1, NodeTypes DEF Called
  <2>3. ASSUME NEW id \in refused'
        PROVE  \E n \in DOMAIN node : node[n].id = id /\ node'[n].state # "ACTIVE"
    <3>1. CASE id = sid[c]
      BY <2>1, <2>2, <3>1
    <3>2. CASE id # sid[c]
      <4>1. PICK n \in DOMAIN node : node[n].id = id /\ node[n].state # "ACTIVE"
        BY <1>1, <2>1, <3>2 DEF Known
      <4>2. QED BY <2>1, <4>1 DEF SameState
    <3>3. QED BY <3>1, <3>2
  <2>4. QED BY <1>1, <2>1, <2>3, IdsReturn DEF SameNodes
<1>9. ASSUME NEW c \in Threads, Refresh(c) PROVE Goal
  <2>1. Return(c) /\ refused' = refused /\ SameNodes /\ \A n \in DOMAIN node : SameState(n)
    BY <1>1, <1>9, RefreshWrites
  <2>2. QED BY <1>1, <2>1, IdsReturn DEF SameNodes, SameState, Known
<1>10. ASSUME NEW c \in Threads, NEW t \in Timeouts, Create(c, t) PROVE Goal
  <2> DEFINE k == Len(node) + 1
             r == [id |-> stamp[c], state |-> "ACTIVE", created |-> now, expires |-> now + t]
  <2>1. /\ DOMAIN node' = DOMAIN node \cup {k} /\ k \notin DOMAIN node
        /\ \A n \in DOMAIN node : node'[n] = node[n]
        /\ node'[k] = r
    BY <1>1, <1>10, Created
  <2>2. r.id = stamp[c]
    OBVIOUS
  <2>3. Return(c) /\ refused' = refused /\ pc[c] = "create"
    BY <1>10 DEF Create, At
  <2> HIDE DEF k, r
  <2>4. /\ pc'[c] = "idle" /\ ~warned'[c]
        /\ \A d \in Threads \ {c} : /\ pc'[d] = pc[d] /\ sid'[d] = sid[d] /\ ptr'[d] = ptr[d]
                                    /\ warned'[d] = warned[d] /\ stamp'[d] = stamp[d]
    BY <1>1, <2>3 DEF Return, Goto, LocalTypes
  <2>5. OneId'
    BY <1>1, <2>1, <2>2, <2>3 DEF OneId, NewIds
  <2>6. NewIds'
    BY <1>1, <2>1, <2>2, <2>3, <2>4 DEF NewIds
  <2>7. Called'
    <3> SUFFICES ASSUME NEW d \in Threads, pc'[d] \in Pointing PROVE node'[ptr'[d]].id = sid'[d]
      BY DEF Called
    <3>1. d # c
      BY <2>4 DEF Pointing, Uses
    <3>2. pc[d] \in Pointing /\ ptr[d] \in DOMAIN node
      BY <1>1, <2>4, <3>1, NodeTypes
    <3>3. QED BY <1>1, <2>1, <2>4, <3>1, <3>2 DEF Called
  <2>8. Known' /\ Warned'
    BY <1>1, <2>1, <2>3, <2>4 DEF Known, Warned
  <2>9. QED BY <2>5, <2>6, <2>7, <2>8
<1>11. ASSUME NEW c \in Threads, Unlink(c) PROVE Goal
  <2>1. /\ pc[c] = "unlink" /\ pc' = [pc EXCEPT ![c] = "free"]
        /\ UNCHANGED <<node, sid, ptr, stamp, warned, refused>>
    BY <1>11 DEF Unlink, At, Goto
  <2>2. NewIds' /\ Called' /\ Warned'
    BY <1>1, <2>1 DEF NewIds, Called, Warned, LocalTypes, Pointing, Uses
  <2>3. OneId' /\ Known'
    BY <1>1, <2>1 DEF OneId, Known
  <2>4. QED BY <2>2, <2>3
<1>12. ASSUME NEW c \in Threads, NoServer(c) \/ Accept(c) \/ Cleanup(c) \/ Free(c) PROVE Goal
  <2>1. Return(c) /\ UNCHANGED <<node, refused>>
    BY <1>12 DEF NoServer, Accept, Cleanup, Free, sessions
  <2>2. QED BY <1>2, <2>1
<1>13. ASSUME Tick \/ Disconnect \/ Shutdown \/ UNCHANGED vars PROVE Goal
  BY <1>3, <1>13 DEF Tick, Disconnect, Shutdown, vars, sessions
<1> HIDE DEF Goal
<1>14. ASSUME NEW c \in Threads, Thread(c) PROVE Goal
  <2>1. \/ Looking(c) \/ Stating(c) \/ Refresh(c) \/ Unlisting(c) \/ Free(c)
        \/ \E t \in Timeouts : Create(c, t)
    BY <1>14, ThreadCases
  <2>2. QED
    BY <1>4, <1>5, <1>6, <1>7, <1>8, <1>9, <1>10, <1>11, <1>12, <2>1, Zenon DEF Looking, Unlisting
<1>15. Goal
  BY <1>13, <1>14, Zenon DEF Next
<1>16. QED BY <1>15 DEF Goal

(* A refusal is final where ids do not repeat: a validation that begins     *)
(* after its id was banned, invalidated or found expired never succeeds.    *)
THEOREM SessionsRefused ==
    ASSUME Crowded = FALSE
    PROVE  Spec => RefusalHolds
<1>1. IdInv /\ [Next]_vars => [\A c \in Threads : Accept(c) => ~warned[c]]_vars
  BY DEF IdInv, Warned, Accept, At
<1>2. IdInv /\ [Next]_vars => IdInv'
  BY IdStep
<1>3. QED BY IdInit, <1>1, <1>2, PTL DEF Spec, RefusalHolds
=============================================================================
