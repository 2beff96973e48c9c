---------------------------- MODULE RepairProofs ----------------------------
(***************************************************************************)
(* The repair system.  The state roller for any number of threads, any       *)
(* limits and any history, lazy initialisation and shutdown included: as     *)
(* long as no initialisation overlaps another or a create, the list is the   *)
(* newest checkpoints, and a rollback to the last good one is only ever      *)
(* overtaken by a whole listful of newer checkpoints.  The file restorer     *)
(* for any number of threads, files and blocks: what nothing cut into is     *)
(* whole, a file holds blocks of its own, and finished backups stay.         *)
(***************************************************************************)
EXTENDS StateRoller, FileRepair, SequenceTheorems, TLAPS

Creating == {"init", "reset", "configure", "insert"}

TypeInv == RollerTypeOK /\ \A c \in Clients : pc[c] \in Creating => seq[c] \in Sequences

LEMMA LastTyped == ASSUME RollerTypeOK PROVE LastSequence \in Sequences \cup {0}
<1>1. CASE list = <<>>
  BY <1>1 DEF LastSequence
<1>2. CASE list # <<>>
  <2>1. 1 \in DOMAIN list /\ list[1] \in Nat \ {0}
    BY <1>2, ElementOfSeq DEF RollerTypeOK
  <2>2. list[1] \in 1..Len(log)
    BY <2>1, LenProperties DEF RollerTypeOK
  <2>3. log[list[1]] \in Sequences
    BY <2>2, ElementOfSeq DEF RollerTypeOK
  <2>4. QED BY <2>3, <1>2 DEF LastSequence
<1>3. QED BY <1>1, <1>2

(* What Insert does to the list and the log, whether it crashes or not.     *)
LEMMA InsertTyped ==
  ASSUME TypeInv, NEW c \in Clients, Insert(c)
  PROVE  /\ list' \in Seq(Nat \ {0}) /\ log' \in Seq(Sequences)
         /\ \A i \in DOMAIN list' : list'[i] <= Len(log')
         /\ freed' \subseteq Nat \ {0} /\ crashed' \in BOOLEAN
<1> DEFINE n == Len(log)
           l == <<n + 1>> \o list
<1>1. n \in Nat /\ limit \in Nat /\ list \in Seq(Nat \ {0})
  BY LenProperties DEF TypeInv, RollerTypeOK
<1>2. log' = Append(log, seq[c]) /\ seq[c] \in Sequences
  BY DEF Insert, At, TypeInv, Creating
<1>3. log' \in Seq(Sequences) /\ Len(log') = n + 1
  BY <1>2, AppendProperties DEF TypeInv, RollerTypeOK
<1>4. <<n + 1>> \in Seq(Nat \ {0}) /\ Len(<<n + 1>>) = 1 /\ <<n + 1>>[1] = n + 1
  BY <1>1
<1>5. /\ l \in Seq(Nat \ {0}) /\ Len(l) = 1 + Len(list)
      /\ \A i \in 1..(1 + Len(list)) : l[i] = IF i <= 1 THEN n + 1 ELSE list[i - 1]
  BY <1>1, <1>4, ConcatProperties
<1>6. Len(list) \in Nat /\ DOMAIN list = 1..Len(list)
  BY <1>1, LenProperties
<1>7. \A i \in 1..Len(l) : l[i] <= n + 1 /\ l[i] \in Nat \ {0}
  <2>1. TAKE i \in 1..Len(l)
  <2>2. CASE i <= 1
    BY <2>2, <1>1, <1>5, <1>6
  <2>3. CASE i > 1
    <3>1. l[i] = list[i - 1] /\ i - 1 \in 1..Len(list)
      BY <2>3, <1>5, <1>6
    <3>2. list[i - 1] <= n /\ list[i - 1] \in Nat \ {0}
      BY <3>1, <1>6, <1>1, ElementOfSeq DEF TypeInv, RollerTypeOK
    <3>3. QED BY <3>1, <3>2, <1>1
  <2>4. QED BY <2>2, <2>3, <1>6
<1>8. ASSUME NEW k \in 0..Len(l), list' = SubSeq(l, 1, k)
      PROVE  list' \in Seq(Nat \ {0}) /\ \A i \in DOMAIN list' : list'[i] <= n + 1
  <2>1. \A i \in 1..k : l[i] \in Nat \ {0}
    BY <1>7, <1>5, <1>6
  <2>2. /\ list' \in Seq(Nat \ {0}) /\ Len(list') = k
        /\ \A i \in 1..k : list'[i] = l[i]
    BY <2>1, <1>8, <1>5, <1>6, SubSeqProperties
  <2>3. DOMAIN list' = 1..k
    BY <2>2, LenProperties
  <2>4. \A i \in 1..k : l[i] <= n + 1
    BY <1>7, <1>8, <1>5, <1>6
  <2>5. QED BY <2>2, <2>3, <2>4
<1>9. list' \in Seq(Nat \ {0}) /\ \A i \in DOMAIN list' : list'[i] <= n + 1
  <2>1. CASE TrimCrashes(l)
    BY <2>1, <1>8, <1>5, <1>6 DEF Insert, TrimCrashes
  <2>2. CASE ~TrimCrashes(l) /\ (limit = 0 \/ ~(Len(l) > limit))
    <3>1. list' = l
      BY <2>2 DEF Insert, Trimmed
    <3>2. QED BY <3>1, <1>5, <1>6, <1>7
  <2>3. CASE ~TrimCrashes(l) /\ limit # 0 /\ Len(l) > limit
    <3>1. list' = SubSeq(l, 1, limit) /\ limit \in 0..Len(l)
      BY <2>3, <1>1, <1>5, <1>6 DEF Insert, Trimmed
    <3>2. QED BY <3>1, <1>8
  <2>4. QED BY <2>1, <2>2, <2>3
<1>10. freed' \subseteq Nat \ {0} /\ crashed' \in BOOLEAN
  <2>1. CASE TrimCrashes(l)
    BY <2>1 DEF Insert, TypeInv, RollerTypeOK
  <2>2. CASE ~TrimCrashes(l)
    <3>1. freed' = freed \cup {l[i] : i \in Len(list') + 1 .. Len(l)} /\ crashed' = crashed
      BY <2>2 DEF Insert
    <3>2. Len(list') \in Nat
      BY <1>9, LenProperties
    <3>3. \A i \in Len(list') + 1 .. Len(l) : l[i] \in Nat \ {0}
      BY <3>2, <1>7, <1>5, <1>6
    <3>4. QED BY <3>1, <3>3 DEF TypeInv, RollerTypeOK
  <2>3. QED BY <2>1, <2>2
<1>11. QED BY <1>3, <1>9, <1>10

LEMMA ReturnTyped ==
  ASSUME TypeInv, NEW c \in Clients, NEW r \in {"success", "empty", "missing"}, Return(c, r)
  PROVE  /\ pc' \in [Clients -> {"idle", "init", "reset", "configure", "insert", "find", "use"}]
         /\ seq' \in [Clients -> Sequences \cup {0}] /\ taken' \in [Clients -> Nat]
         /\ result' \in [Clients -> {"none", "success", "empty", "missing"}]
         /\ \A d \in Clients : pc'[d] \in Creating => seq'[d] \in Sequences
<1>1. /\ pc' = [pc EXCEPT ![c] = "idle"] /\ seq' = [seq EXCEPT ![c] = 0]
      /\ taken' = [taken EXCEPT ![c] = 0] /\ result' = [result EXCEPT ![c] = r]
  BY DEF Return, Goto
<1>2. /\ pc' \in [Clients -> {"idle", "init", "reset", "configure", "insert", "find", "use"}]
      /\ seq' \in [Clients -> Sequences \cup {0}]
  BY <1>1 DEF TypeInv, RollerTypeOK
<1>3. taken' \in [Clients -> Nat] /\ result' \in [Clients -> {"none", "success", "empty", "missing"}]
  BY <1>1 DEF TypeInv, RollerTypeOK
<1>4. \A d \in Clients : pc'[d] \in Creating => seq'[d] \in Sequences
  BY <1>1 DEF TypeInv, RollerTypeOK, Creating
<1>5. QED BY <1>2, <1>3, <1>4

LEMMA TypeStep == TypeInv /\ [RollerNext]_rollerVars => TypeInv'
<1> SUFFICES ASSUME TypeInv, [RollerNext]_rollerVars PROVE TypeInv'
  OBVIOUS
<1> USE DEF TypeInv, RollerTypeOK, shared, local, Creating
<1>1. ASSUME NEW c \in Clients, NEW s \in Sequences, CreateCall(c, s) PROVE TypeInv'
  BY <1>1 DEF CreateCall, Goto
<1>2. ASSUME NEW c \in Clients, NEW s \in Sequences, RollbackCall(c, s) PROVE TypeInv'
  BY <1>2 DEF RollbackCall, Goto
<1>3. ASSUME NEW c \in Clients, InitTest(c) PROVE TypeInv'
  BY <1>3 DEF InitTest, At, Goto
<1>4. ASSUME NEW c \in Clients, InitReset(c) PROVE TypeInv'
  BY <1>4 DEF InitReset, At, Goto
<1>5. ASSUME NEW c \in Clients, InitLimit(c) PROVE TypeInv'
  BY <1>5, RollerAssumption DEF InitLimit, At, Goto, RollerAssumption
<1>6. ASSUME NEW c \in Clients, Insert(c) PROVE TypeInv'
  <2>1. /\ list' \in Seq(Nat \ {0}) /\ log' \in Seq(Sequences)
        /\ \A i \in DOMAIN list' : list'[i] <= Len(log')
        /\ freed' \subseteq Nat \ {0} /\ crashed' \in BOOLEAN
    BY <1>6, InsertTyped
  <2>2. limit' = limit /\ inited' = inited /\ op' = op /\ mark' = mark /\ raced' \in BOOLEAN
    BY <1>6 DEF Insert
  <2>3. Return(c, "success") \/ UNCHANGED <<pc, result, seq, taken>>
    BY <1>6 DEF Insert
  <2>4. /\ pc' \in [Clients -> {"idle", "init", "reset", "configure", "insert", "find", "use"}]
        /\ seq' \in [Clients -> Sequences \cup {0}] /\ taken' \in [Clients -> Nat]
        /\ result' \in [Clients -> {"none", "success", "empty", "missing"}]
        /\ \A d \in Clients : pc'[d] \in Creating => seq'[d] \in Sequences
    <3>1. CASE Return(c, "success")
      BY <3>1, ReturnTyped
    <3>2. CASE UNCHANGED <<pc, result, seq, taken>>
      BY <3>2
    <3>3. QED BY <2>3, <3>1, <3>2
  <2>5. QED BY <2>1, <2>2, <2>4
<1>7. ASSUME NEW c \in Clients, GetLast(c) PROVE TypeInv'
  <2>1. LastSequence \in Sequences \cup {0} /\ Len(log) \in Nat
    BY LastTyped, LenProperties
  <2>2. UNCHANGED shared /\ op' = [op EXCEPT ![c] = "last"] /\ mark' = [mark EXCEPT ![c] = Len(log)]
    BY <1>7 DEF GetLast
  <2>3. CASE LastSequence = 0
    <3>1. Return(c, "empty")
      BY <1>7, <2>3 DEF GetLast
    <3>2. /\ op' \in [Clients -> {"none", "create", "rollback", "last"}]
          /\ mark' \in [Clients -> Nat]
      BY <2>1, <2>2
    <3>3. QED BY <3>1, <3>2, <2>2, ReturnTyped
  <2>4. CASE LastSequence # 0
    <3>1. /\ pc' = [pc EXCEPT ![c] = "find"] /\ seq' = [seq EXCEPT ![c] = LastSequence]
          /\ UNCHANGED <<taken, result>>
      BY <1>7, <2>4 DEF GetLast, Goto
    <3>2. /\ op' \in [Clients -> {"none", "create", "rollback", "last"}]
          /\ mark' \in [Clients -> Nat] /\ seq' \in [Clients -> Sequences \cup {0}]
      BY <3>1, <2>1, <2>2
    <3>3. \A d \in Clients : pc'[d] \in Creating => seq'[d] \in Sequences
      BY <3>1
    <3>4. QED BY <3>1, <3>2, <3>3, <2>2
  <2>5. QED BY <2>3, <2>4
<1>8. ASSUME NEW c \in Clients, FindSequence(c) PROVE TypeInv'
  <2>1. CASE SequenceAt(seq[c]) = {}
    <3>1. Return(c, "missing") /\ UNCHANGED <<shared, op, mark>>
      BY <1>8, <2>1 DEF FindSequence
    <3>2. QED BY <3>1, ReturnTyped
  <2>2. CASE SequenceAt(seq[c]) # {}
    <3>1. PICK i \in DOMAIN list : taken' = [taken EXCEPT ![c] = list[i]]
      BY <1>8, <2>2 DEF FindSequence
    <3>2. list[i] \in Nat
      BY <3>1, ElementOfSeq, LenProperties
    <3>3. QED BY <1>8, <2>2, <3>1, <3>2 DEF FindSequence, Goto
  <2>3. QED BY <2>1, <2>2
<1>9. ASSUME NEW c \in Clients, Use(c) PROVE TypeInv'
  <2>1. Return(c, "success") /\ UNCHANGED <<shared, op, mark>>
    BY <1>9 DEF Use
  <2>2. QED BY <2>1, ReturnTyped
<1>10. ASSUME Shutdown PROVE TypeInv'
  <2>1. <<>> \in Seq(Nat \ {0}) /\ <<>> \in Seq(Sequences) /\ DOMAIN <<>> = {}
    BY EmptySeq
  <2>2. list' = <<>> /\ log' = <<>> /\ freed' = {} /\ inited' = FALSE /\ raced' = FALSE
    BY <1>10 DEF Shutdown
  <2>3. UNCHANGED <<limit, crashed, pc, op, seq, taken>>
    BY <1>10 DEF Shutdown
  <2>4. mark' \in [Clients -> Nat] /\ result' \in [Clients -> {"none", "success", "empty", "missing"}]
    BY <1>10 DEF Shutdown
  <2>5. QED BY <2>1, <2>2, <2>3, <2>4
<1>11. CASE UNCHANGED rollerVars
  BY <1>11 DEF rollerVars
<1>12. QED
  BY <1>1, <1>2, <1>3, <1>4, <1>5, <1>6, <1>7, <1>8, <1>9, <1>10, <1>11 DEF RollerNext, RollerClient

LEMMA TypeStart == RollerInit => TypeInv
<1> SUFFICES ASSUME RollerInit PROVE TypeInv
  OBVIOUS
<1>1. limit \in Nat /\ {inited, crashed, raced} \subseteq BOOLEAN
  BY RollerAssumption DEF RollerInit, RollerAssumption
<1>2. <<>> \in Seq(Nat \ {0}) /\ <<>> \in Seq(Sequences) /\ DOMAIN <<>> = {}
  BY EmptySeq
<1>3. QED BY <1>1, <1>2 DEF RollerInit, TypeInv, RollerTypeOK, Creating

(* The list only ever holds checkpoints that were created, whatever threads *)
(* do at once, a crash and an overlapping initialisation included.          *)
THEOREM RollerTypes == RollerSpec => []RollerTypeOK
<1>1. RollerInit => TypeInv
  BY TypeStart
<1>2. TypeInv /\ [RollerNext]_rollerVars => TypeInv'
  BY TypeStep
<1>3. TypeInv => RollerTypeOK
  BY DEF TypeInv
<1>4. QED BY <1>1, <1>2, <1>3, PTL DEF RollerSpec

-----------------------------------------------------------------------------
(* The newest checkpoints *)

Fresh == list = <<>> /\ log = <<>> /\ freed = {}

(* NewestKept, and what keeps it so: a list that may still be reset is      *)
(* empty, and nobody inserts before the list has been set up.               *)
RollerInv ==
    /\ NewestKept
    /\ \A c \in Clients : pc[c] \in {"configure", "insert"} => inited
    /\ ~raced => /\ inited \/ Fresh
                 /\ \A c \in Clients : pc[c] \in {"reset", "configure"} => Fresh

LEMMA Lengths ==
  ASSUME TypeInv, RollerInv, Sound
  PROVE  /\ Len(log) \in Nat /\ KeptCount \in 0..Len(log) /\ KeptCount <= limit
         /\ limit \in Nat /\ limit >= 2
         /\ list \in Seq(Nat) /\ Len(list) = KeptCount /\ DOMAIN list = 1..KeptCount
         /\ \A i \in 1..KeptCount : list[i] = Len(log) + 1 - i
         /\ freed = 1..(Len(log) - KeptCount)
<1>1. Len(log) \in Nat /\ limit \in Nat /\ limit >= 2
  BY LenProperties DEF TypeInv, RollerTypeOK, Sound
<1>2. KeptCount \in 0..Len(log) /\ KeptCount <= limit
  BY <1>1 DEF KeptCount
<1>3. list = [i \in 1..KeptCount |-> Len(log) + 1 - i] /\ freed = 1..(Len(log) - KeptCount)
  BY DEF RollerInv, NewestKept
<1>4. \A i \in 1..KeptCount : Len(log) + 1 - i \in Nat
  BY <1>1, <1>2
<1>5. list \in [1..KeptCount -> Nat]
  BY <1>3, <1>4
<1>6. KeptCount \in Nat
  BY <1>1, <1>2
<1>7. list \in Seq(Nat)
  BY <1>5, <1>6
<1>8. QED BY <1>1, <1>2, <1>3, <1>5, <1>6, <1>7, LenProperties

(* One creation: the new checkpoint in front, the oldest one freed when the *)
(* list was full.                                                           *)
LEMMA InsertKeeps ==
  ASSUME TypeInv, RollerInv, Sound, NEW c \in Clients, Insert(c)
  PROVE  ~crashed' /\ log' = Append(log, seq[c]) /\ NewestKept' /\ UNCHANGED limit
<1> DEFINE n == Len(log)
           l == <<n + 1>> \o list
<1>0. /\ n \in Nat /\ KeptCount \in 0..n /\ KeptCount <= limit /\ limit \in Nat /\ limit >= 2
      /\ list \in Seq(Nat) /\ Len(list) = KeptCount
      /\ \A i \in 1..KeptCount : list[i] = n + 1 - i
  BY Lengths
<1>1. /\ l \in Seq(Nat) /\ Len(l) = KeptCount + 1
      /\ \A i \in 1..(KeptCount + 1) : l[i] = n + 2 - i
  <2>1. <<n + 1>> \in Seq(Nat) /\ Len(<<n + 1>>) = 1 /\ <<n + 1>>[1] = n + 1
    BY <1>0
  <2>2. /\ l \in Seq(Nat) /\ Len(l) = 1 + KeptCount
        /\ \A i \in 1..(1 + KeptCount) : l[i] = IF i <= 1 THEN n + 1 ELSE list[i - 1]
    BY <2>1, <1>0, ConcatProperties
  <2>3. QED BY <2>2, <1>0
<1>2. ~TrimCrashes(l)
  BY <1>0 DEF TrimCrashes
<1>3. /\ log' = Append(log, seq[c]) /\ limit' = limit /\ crashed' = crashed
      /\ list' = Trimmed(l)
      /\ freed' = freed \cup {l[i] : i \in Len(list') + 1 .. Len(l)}
  BY <1>2, <1>0 DEF Insert
<1>4. Len(log') = n + 1
  <2>1. seq[c] \in Sequences /\ log \in Seq(Sequences)
    BY DEF Insert, At, TypeInv, RollerTypeOK, Creating
  <2>2. QED BY <2>1, <1>3, AppendProperties
<1>5. KeptCount' = IF KeptCount < limit THEN KeptCount + 1 ELSE limit
  BY <1>0, <1>3, <1>4 DEF KeptCount
<1>6. /\ list' \in Seq(Nat) /\ Len(list') = KeptCount'
      /\ \A i \in 1..KeptCount' : list'[i] = n + 2 - i
  <2>1. CASE KeptCount < limit
    <3>1. list' = l /\ KeptCount' = KeptCount + 1
      BY <2>1, <1>0, <1>1, <1>3, <1>5 DEF Trimmed
    <3>2. QED BY <3>1, <1>1
  <2>2. CASE ~(KeptCount < limit)
    <3>1. list' = SubSeq(l, 1, limit) /\ KeptCount = limit
      BY <2>2, <1>0, <1>1, <1>3 DEF Trimmed
    <3>2. \A i \in 1..limit : l[i] \in Nat
      BY <3>1, <1>1, <1>0
    <3>3. /\ list' \in Seq(Nat) /\ Len(list') = limit
          /\ \A i \in 1..limit : list'[i] = l[i]
      BY <3>1, <3>2, <1>0, SubSeqProperties
    <3>4. QED BY <3>3, <3>1, <1>0, <1>1, <1>5
  <2>3. QED BY <2>1, <2>2
<1>7. list' = [i \in 1..KeptCount' |-> Len(log') + 1 - i]
  <2>1. list' \in [1..KeptCount' -> Nat]
    BY <1>6, LenProperties
  <2>2. \A i \in 1..KeptCount' : list'[i] = Len(log') + 1 - i
    BY <1>6, <1>4, <1>5, <1>0
  <2>3. QED BY <2>1, <2>2
<1>8. freed' = 1..(Len(log') - KeptCount')
  <2>1. freed = 1..(n - KeptCount)
    BY Lengths
  <2>2. freed' = freed \cup {l[i] : i \in KeptCount' + 1 .. KeptCount + 1}
    BY <1>3, <1>6, <1>1
  <2>3. CASE KeptCount < limit
    <3>1. {l[i] : i \in KeptCount' + 1 .. KeptCount + 1} = {}
      BY <2>3, <1>5, <1>0
    <3>2. QED BY <3>1, <2>1, <2>2, <2>3, <1>4, <1>5, <1>0
  <2>4. CASE ~(KeptCount < limit)
    <3>1. {l[i] : i \in KeptCount' + 1 .. KeptCount + 1} = {n + 1 - KeptCount}
      BY <2>4, <1>5, <1>0, <1>1
    <3>2. freed' = (1..(n - KeptCount)) \cup {n + 1 - KeptCount}
      BY <3>1, <2>1, <2>2
    <3>3. (1..(n - KeptCount)) \cup {n + 1 - KeptCount} = 1..(n + 1 - KeptCount)
      BY <1>0
    <3>4. KeptCount' = KeptCount
      BY <2>4, <1>5, <1>0
    <3>5. Len(log') - KeptCount' = n + 1 - KeptCount
      BY <3>4, <1>4, <1>0
    <3>6. QED BY <3>2, <3>3, <3>5
  <2>5. QED BY <2>3, <2>4
<1>9. QED BY <1>3, <1>7, <1>8 DEF NewestKept, Sound

LEMMA FreshKept == ASSUME Fresh, limit \in Nat PROVE NewestKept
<1>1. Len(log) = 0
  BY DEF Fresh
<1>2. KeptCount = 0
  BY <1>1 DEF KeptCount
<1>3. list = [i \in 1..KeptCount |-> Len(log) + 1 - i] /\ freed = 1..(Len(log) - KeptCount)
  BY <1>1, <1>2 DEF Fresh
<1>4. QED BY <1>3 DEF NewestKept

LEMMA FreshKeptNext == ASSUME Fresh', limit' \in Nat PROVE NewestKept'
<1>1. Len(log') = 0
  BY DEF Fresh
<1>2. KeptCount' = 0
  BY <1>1 DEF KeptCount
<1>3. list' = [i \in 1..KeptCount' |-> Len(log') + 1 - i] /\ freed' = 1..(Len(log') - KeptCount')
  BY <1>1, <1>2 DEF Fresh
<1>4. QED BY <1>3 DEF NewestKept

LEMMA RollerStep == TypeInv /\ RollerInv /\ [RollerNext]_rollerVars => RollerInv'
<1> SUFFICES ASSUME TypeInv, RollerInv, [RollerNext]_rollerVars PROVE RollerInv'
  OBVIOUS
<1> USE DEF shared, local
<1>0. pc \in [Clients -> {"idle", "init", "reset", "configure", "insert", "find", "use"}]
  BY DEF TypeInv, RollerTypeOK
<1>1. ASSUME UNCHANGED shared,
             \A d \in Clients : pc'[d] \in {"configure", "insert"} => inited,
             ~raced => \A d \in Clients : pc'[d] \in {"reset", "configure"} => Fresh
      PROVE RollerInv'
  BY <1>1 DEF RollerInv, NewestKept, KeptCount, Sound, Fresh
<1>2. ASSUME UNCHANGED shared, NEW c \in Clients, NEW q \in {"idle", "find", "use"}, Goto(c, q)
      PROVE RollerInv'
  BY <1>0, <1>1, <1>2 DEF Goto, RollerInv
<1>3. ASSUME NEW c \in Clients, NEW s \in Sequences, CreateCall(c, s) PROVE RollerInv'
  BY <1>0, <1>1, <1>3 DEF CreateCall, Goto, RollerInv
<1>4. ASSUME NEW c \in Clients, NEW s \in Sequences, RollbackCall(c, s) PROVE RollerInv'
  BY <1>2, <1>4 DEF RollbackCall
<1>5. ASSUME NEW c \in Clients, InitTest(c) PROVE RollerInv'
  BY <1>0, <1>1, <1>5 DEF InitTest, Goto, RollerInv
<1>6. ASSUME NEW c \in Clients, InitReset(c) PROVE RollerInv'
  <2>1. pc[c] = "reset" /\ pc' = [pc EXCEPT ![c] = "configure"]
    BY <1>6 DEF InitReset, At, Goto
  <2>2. list' = <<>> /\ inited' /\ (~raced' => ~raced) /\ UNCHANGED <<limit, freed, crashed, log>>
    BY <1>6 DEF InitReset
  <2>3. ~raced' => Fresh'
    BY <2>1, <2>2 DEF RollerInv, Fresh
  <2>4. limit' \in Nat
    BY <2>2 DEF TypeInv, RollerTypeOK
  <2>5. NewestKept'
    <3>1. CASE raced'
      BY <3>1 DEF NewestKept, Sound
    <3>2. CASE ~raced'
      BY <3>2, <2>3, <2>4, FreshKeptNext
    <3>3. QED BY <3>1, <3>2
  <2>6. QED BY <2>2, <2>3, <2>5 DEF RollerInv
<1>7. ASSUME NEW c \in Clients, InitLimit(c) PROVE RollerInv'
  <2>1. pc[c] = "configure" /\ pc' = [pc EXCEPT ![c] = "insert"]
    BY <1>7 DEF InitLimit, At, Goto
  <2>2. limit' \in Nat /\ UNCHANGED <<list, inited, freed, crashed, log, raced>>
    BY <1>7, RollerAssumption DEF InitLimit, RollerAssumption
  <2>3. inited /\ (~raced => Fresh)
    BY <2>1 DEF RollerInv
  <2>4. NewestKept'
    <3>1. CASE raced
      BY <3>1, <2>2 DEF NewestKept, Sound
    <3>2. CASE ~raced
      <4>1. Fresh'
        BY <3>2, <2>2, <2>3 DEF Fresh
      <4>2. QED BY <4>1, <2>2, FreshKeptNext
    <3>3. QED BY <3>1, <3>2
  <2>5. QED BY <2>1, <2>2, <2>3, <2>4, <1>0 DEF RollerInv, Fresh
<1>8. ASSUME NEW c \in Clients, Insert(c) PROVE RollerInv'
  <2>1. pc[c] = "insert" /\ inited /\ inited' = inited /\ limit' = limit /\ ~crashed
    BY <1>8 DEF Insert, At, RollerInv
  <2>2. ~raced' => ~raced /\ \A d \in Clients : pc[d] \notin {"reset", "configure"}
    BY <1>8 DEF Insert
  <2>3. UNCHANGED pc \/ pc' = [pc EXCEPT ![c] = "idle"]
    BY <1>8 DEF Insert, Return, Goto
  <2>4. NewestKept'
    <3>1. CASE Sound
      BY <3>1, <1>8, InsertKeeps
    <3>2. CASE ~Sound
      BY <3>2, <2>1, <2>2 DEF NewestKept, Sound
    <3>3. QED BY <3>1, <3>2
  <2>5. \A d \in Clients : pc'[d] = pc[d] \/ pc'[d] = "idle"
    BY <2>3, <1>0
  <2>6. QED BY <2>1, <2>2, <2>4, <2>5 DEF RollerInv
<1>9. ASSUME NEW c \in Clients, GetLast(c) PROVE RollerInv'
  BY <1>2, <1>9 DEF GetLast, Return
<1>10. ASSUME NEW c \in Clients, FindSequence(c) PROVE RollerInv'
  BY <1>2, <1>10 DEF FindSequence, Return
<1>11. ASSUME NEW c \in Clients, Use(c) PROVE RollerInv'
  BY <1>2, <1>11 DEF Use, Return
<1>12. ASSUME Shutdown PROVE RollerInv'
  <2>1. Fresh' /\ limit' \in Nat /\ \A d \in Clients : pc'[d] = "idle"
    BY <1>12 DEF Shutdown, Fresh, TypeInv, RollerTypeOK
  <2>2. QED BY <2>1, FreshKeptNext DEF RollerInv
<1>13. CASE UNCHANGED rollerVars
  BY <1>1, <1>13 DEF rollerVars, RollerInv
<1>14. QED
  BY <1>3, <1>4, <1>5, <1>6, <1>7, <1>8, <1>9, <1>10, <1>11, <1>12, <1>13 DEF RollerNext, RollerClient

LEMMA RollerStart == RollerInit => RollerInv
<1> SUFFICES ASSUME RollerInit PROVE RollerInv
  OBVIOUS
<1>1. Fresh /\ \A c \in Clients : pc[c] = "idle"
  BY DEF RollerInit, Fresh
<1>2. limit \in Nat
  BY RollerAssumption DEF RollerAssumption, RollerInit
<1>3. QED BY <1>1, <1>2, FreshKept DEF RollerInv

(* However many threads create checkpoints, the list is the newest ones in  *)
(* order, as many as the limit, and nothing else has been freed.            *)
THEOREM RollerKeepsNewest == RollerSpec => []NewestKept
<1>1. RollerInit => TypeInv /\ RollerInv
  BY TypeStart, RollerStart
<1>2. TypeInv /\ RollerInv /\ [RollerNext]_rollerVars => TypeInv' /\ RollerInv'
  BY TypeStep, RollerStep
<1>3. RollerInv => NewestKept
  BY DEF RollerInv
<1>4. QED BY <1>1, <1>2, <1>3, PTL DEF RollerSpec

-----------------------------------------------------------------------------
(* Rolling back to the last good checkpoint *)

(* What a client in rollback_to_last_good knows at each place: the newest    *)
(* checkpoint was number mark when it looked, and what it finds is no older. *)
Knows(c) ==
    /\ mark[c] \in 0..Len(log) /\ pc[c] \in {"idle", "find", "use"}
    /\ pc[c] # "idle" \/ result[c] = "missing" => mark[c] >= 1
    /\ limit >= 2 =>
        /\ pc[c] = "find" => log[mark[c]] = seq[c]
        /\ pc[c] = "use" => taken[c] \in mark[c]..Len(log) /\ log[taken[c]] = seq[c]
        /\ pc[c] = "idle" /\ result[c] = "missing" => Len(log) - mark[c] >= limit

WindowInv ==
    ~raced /\ ~crashed => \A c \in Clients : op[c] = "last" => Knows(c)

LEMMA WindowSuffices ==
  ASSUME TypeInv, RollerInv, WindowInv
  PROVE  LastGoodWindow
<1> SUFFICES ASSUME Sound PROVE LastGoodWindow
  BY DEF LastGoodWindow
<1>1. ASSUME NEW c \in Clients, op[c] = "last" PROVE Knows(c)
  BY <1>1 DEF WindowInv, Sound
<1>2. /\ Len(log) \in Nat /\ KeptCount \in 0..Len(log) /\ freed = 1..(Len(log) - KeptCount)
      /\ limit \in Nat /\ KeptCount = IF Len(log) < limit THEN Len(log) ELSE limit
  BY Lengths DEF KeptCount
<1>3. ASSUME NEW c \in Clients, op[c] = "last", pc[c] = "use", taken[c] \in freed
      PROVE  Len(log) - mark[c] >= limit
  <2>1. mark[c] \in 0..Len(log) /\ taken[c] \in mark[c]..Len(log)
    BY <1>1, <1>3 DEF Knows, Sound
  <2>2. taken[c] >= 1 /\ taken[c] <= Len(log) - KeptCount
    BY <1>2, <1>3, <2>1
  <2>3. QED BY <1>2, <2>1, <2>2
<1>4. ASSUME NEW c \in Clients, op[c] = "last", pc[c] = "use"
      PROVE  taken[c] >= mark[c] /\ log[taken[c]] = seq[c]
  <2>1. taken[c] \in mark[c]..Len(log) /\ mark[c] \in 0..Len(log) /\ log[taken[c]] = seq[c]
    BY <1>1, <1>4 DEF Knows, Sound
  <2>2. QED BY <2>1, <1>2
<1>5. ASSUME NEW c \in Clients, op[c] = "last", pc[c] = "idle", result[c] = "missing"
      PROVE  Len(log) - mark[c] >= limit
  BY <1>1, <1>5 DEF Knows, Sound
<1>6. QED BY <1>3, <1>4, <1>5 DEF LastGoodWindow

(* A search finds nothing older than what is still in the list, and misses  *)
(* only what a listful of newer checkpoints has pushed out.                 *)
LEMMA FindKnows ==
  ASSUME TypeInv, RollerInv, WindowInv, Sound, NEW c \in Clients, op[c] = "last", FindSequence(c)
  PROVE  Knows(c)'
<1> DEFINE n == Len(log)
           m == mark[c]
<1>1. /\ n \in Nat /\ KeptCount \in 0..n /\ limit \in Nat /\ DOMAIN list = 1..KeptCount
      /\ KeptCount = IF n < limit THEN n ELSE limit
      /\ \A i \in 1..KeptCount : list[i] = n + 1 - i
  BY Lengths DEF KeptCount
<1>2. m \in 1..n /\ log[m] = seq[c]
  <2>1. pc[c] = "find"
    BY DEF FindSequence, At
  <2>2. Knows(c)
    BY DEF WindowInv, Sound
  <2>3. QED BY <2>1, <2>2, <1>1 DEF Knows, Sound
<1>3. log' = log /\ limit' = limit /\ mark' = mark
  BY DEF FindSequence, shared
<1>4. c \in DOMAIN pc /\ c \in DOMAIN taken /\ c \in DOMAIN result /\ c \in DOMAIN seq
  BY DEF TypeInv, RollerTypeOK
<1>5. m > n - KeptCount => n + 1 - m \in SequenceAt(seq[c])
  <2>1. SUFFICES ASSUME m > n - KeptCount PROVE n + 1 - m \in SequenceAt(seq[c])
    OBVIOUS
  <2>2. n + 1 - m \in 1..KeptCount
    BY <2>1, <1>1, <1>2
  <2>3. list[n + 1 - m] = m
    BY <2>2, <1>1, <1>2
  <2>4. QED BY <2>2, <2>3, <1>1, <1>2 DEF SequenceAt
<1>6. CASE SequenceAt(seq[c]) = {}
  <2>1. pc'[c] = "idle"
    BY <1>6, <1>4 DEF FindSequence, Return, Goto
  <2>2. n - m >= limit
    BY <1>5, <1>6, <1>1, <1>2
  <2>3. mark'[c] \in 0..Len(log') /\ Len(log') - mark'[c] >= limit'
    BY <2>2, <1>1, <1>2, <1>3
  <2>4. QED BY <2>1, <2>3, <1>1, <1>2, <1>3 DEF Knows
<1>7. CASE SequenceAt(seq[c]) # {}
  <2>1. PICK i \in DOMAIN list : FirstMatch(i, seq[c]) /\ taken' = [taken EXCEPT ![c] = list[i]]
    BY <1>7 DEF FindSequence
  <2>2. i \in 1..KeptCount /\ log[list[i]] = seq[c] /\ list[i] = n + 1 - i
    BY <2>1, <1>1 DEF FirstMatch, SequenceAt
  <2>3. n + 1 - i >= m
    <3>1. CASE m > n - KeptCount
      <4>1. i <= n + 1 - m
        BY <3>1, <1>5, <2>1 DEF FirstMatch
      <4>2. QED BY <4>1, <2>2, <1>1, <1>2
    <3>2. CASE ~(m > n - KeptCount)
      BY <3>2, <2>2, <1>1, <1>2
    <3>3. QED BY <3>1, <3>2
  <2>4. taken'[c] = n + 1 - i /\ pc'[c] = "use" /\ seq'[c] = seq[c]
    BY <2>1, <2>2, <1>4, <1>7 DEF FindSequence, Goto
  <2>5. n + 1 - i \in m..n
    BY <2>2, <2>3, <1>1, <1>2
  <2>6. log[n + 1 - i] = seq[c]
    BY <2>2
  <2>7. QED BY <2>4, <2>5, <2>6, <1>2, <1>3 DEF Knows
<1>8. QED BY <1>6, <1>7

LEMMA WindowStep == TypeInv /\ RollerInv /\ WindowInv /\ [RollerNext]_rollerVars => WindowInv'
<1> SUFFICES ASSUME TypeInv, RollerInv, WindowInv, [RollerNext]_rollerVars, ~raced', ~crashed',
                    NEW d \in Clients, op'[d] = "last"
             PROVE  Knows(d)'
  BY DEF WindowInv
<1> USE DEF shared, local
<1>0. /\ ~raced /\ ~crashed /\ op[d] = "last" => Knows(d)
      /\ Len(log) \in Nat /\ limit \in Nat /\ log \in Seq(Sequences)
  BY LenProperties DEF WindowInv, TypeInv, RollerTypeOK
<1> DEFINE Same == /\ pc'[d] = pc[d] /\ op'[d] = op[d] /\ seq'[d] = seq[d]
                   /\ taken'[d] = taken[d] /\ mark'[d] = mark[d] /\ result'[d] = result[d]
<1>1. ASSUME Same, UNCHANGED <<log, limit, raced, crashed>> PROVE Knows(d)'
  BY <1>0, <1>1 DEF Knows
<1>2. ASSUME NEW c \in Clients, NEW s \in Sequences, CreateCall(c, s) \/ RollbackCall(c, s)
      PROVE Knows(d)'
  <2>1. d # c
    BY <1>2 DEF CreateCall, RollbackCall, TypeInv, RollerTypeOK
  <2>2. Same /\ UNCHANGED <<log, limit, raced, crashed>>
    BY <1>2, <2>1 DEF CreateCall, RollbackCall, Goto, TypeInv, RollerTypeOK
  <2>3. QED BY <2>2, <1>1
<1>3. ASSUME NEW c \in Clients, InitTest(c) PROVE Knows(d)'
  <2>1. pc[c] = "init" /\ UNCHANGED <<log, limit, raced, crashed, op, mark, seq, taken, result>>
    BY <1>3 DEF InitTest, At
  <2>2. d # c
    BY <2>1, <1>0 DEF Knows
  <2>3. pc'[d] = pc[d]
    BY <1>3, <2>2 DEF InitTest, Goto, TypeInv, RollerTypeOK
  <2>4. QED BY <2>1, <2>3, <1>1
<1>4. ASSUME NEW c \in Clients, InitReset(c) PROVE Knows(d)'
  <2>1. pc[c] = "reset" /\ UNCHANGED <<log, limit, crashed, op, mark, seq, taken, result>> /\ ~raced
    BY <1>4 DEF InitReset, At
  <2>2. op[d] = "last" /\ Knows(d)
    BY <2>1, <1>0
  <2>3. d # c
    BY <2>1, <2>2 DEF Knows
  <2>4. pc'[d] = pc[d]
    BY <1>4, <2>3 DEF InitReset, Goto, TypeInv, RollerTypeOK
  <2>5. QED BY <2>1, <2>2, <2>4 DEF Knows
<1>5. ASSUME NEW c \in Clients, InitLimit(c) PROVE Knows(d)'
  <2>1. pc[c] = "configure" /\ UNCHANGED <<log, raced, crashed, op, mark, seq, taken, result>> /\ ~raced
    BY <1>5 DEF InitLimit, At
  <2>2. Knows(d) /\ Len(log) = 0
    BY <2>1, <1>0 DEF RollerInv, Fresh
  <2>3. pc[d] = "idle" /\ result[d] # "missing"
    BY <2>2 DEF Knows
  <2>4. d # c
    BY <2>1, <2>3
  <2>5. pc'[d] = pc[d]
    BY <1>5, <2>4 DEF InitLimit, Goto, TypeInv, RollerTypeOK
  <2>6. QED BY <2>1, <2>2, <2>3, <2>5 DEF Knows
<1>6. ASSUME NEW c \in Clients, Insert(c) PROVE Knows(d)'
  <2>1. /\ log' = Append(log, seq[c]) /\ limit' = limit /\ op' = op /\ mark' = mark
        /\ pc[c] = "insert" /\ ~raced /\ ~crashed /\ seq[c] \in Sequences
    BY <1>6 DEF Insert, At, TypeInv, Creating
  <2>2. Knows(d) /\ d # c
    BY <2>1, <1>0 DEF Knows
  <2>3. Len(log') = Len(log) + 1 /\ \A i \in 1..Len(log) : log'[i] = log[i]
    BY <2>1, <1>0, AppendProperties
  <2>4. Return(c, "success") \/ UNCHANGED <<pc, result, seq, taken>>
    BY <1>6 DEF Insert
  <2>5. pc'[d] = pc[d] /\ seq'[d] = seq[d] /\ taken'[d] = taken[d] /\ result'[d] = result[d]
    BY <2>4, <2>2 DEF Return, Goto, TypeInv, RollerTypeOK
  <2>6. /\ mark'[d] \in 0..Len(log') /\ pc'[d] \in {"idle", "find", "use"}
        /\ pc'[d] # "idle" \/ result'[d] = "missing" => mark'[d] >= 1
    BY <2>1, <2>2, <2>3, <2>5, <1>0 DEF Knows
  <2>7. ASSUME limit >= 2, pc[d] = "find" PROVE log'[mark[d]] = seq[d]
    BY <2>2, <2>3, <2>7, <1>0 DEF Knows
  <2>8. ASSUME limit >= 2, pc[d] = "use"
        PROVE  taken[d] \in mark[d]..Len(log') /\ log'[taken[d]] = seq[d]
    <3>1. /\ taken[d] \in mark[d]..Len(log) /\ log[taken[d]] = seq[d]
          /\ mark[d] \in 0..Len(log) /\ mark[d] >= 1
      BY <2>2, <2>8 DEF Knows
    <3>2. taken[d] \in 1..Len(log) /\ taken[d] \in mark[d]..Len(log')
      BY <3>1, <2>3, <1>0
    <3>3. QED BY <3>1, <3>2, <2>3
  <2>9. ASSUME limit >= 2, pc[d] = "idle", result[d] = "missing"
        PROVE  Len(log') - mark[d] >= limit
    BY <2>2, <2>3, <2>9, <1>0 DEF Knows
  <2>10. QED BY <2>1, <2>5, <2>6, <2>7, <2>8, <2>9 DEF Knows
<1>7. ASSUME NEW c \in Clients, GetLast(c) PROVE Knows(d)'
  <2>1. /\ op' = [op EXCEPT ![c] = "last"] /\ mark' = [mark EXCEPT ![c] = Len(log)]
        /\ UNCHANGED <<log, limit, raced, crashed>>
    BY <1>7 DEF GetLast
  <2>2. CASE d # c
    <3>1. Same
      BY <1>7, <2>1, <2>2 DEF GetLast, Return, Goto, TypeInv, RollerTypeOK
    <3>2. QED BY <3>1, <2>1, <1>1
  <2>3. CASE d = c /\ LastSequence = 0
    <3>1. mark'[d] = Len(log) /\ pc'[d] = "idle" /\ result'[d] = "empty"
      BY <1>7, <2>1, <2>3 DEF GetLast, Return, Goto, TypeInv, RollerTypeOK
    <3>2. QED BY <3>1, <2>1, <1>0 DEF Knows
  <2>4. CASE d = c /\ LastSequence # 0
    <3>1. mark'[d] = Len(log) /\ pc'[d] = "find" /\ seq'[d] = log[list[1]] /\ list # <<>>
      BY <1>7, <2>1, <2>4 DEF GetLast, Goto, LastSequence, TypeInv, RollerTypeOK
    <3>2. list[1] <= Len(log) /\ list[1] \in Nat \ {0}
      BY <3>1, ElementOfSeq DEF TypeInv, RollerTypeOK
    <3>3. limit >= 2 => list[1] = Len(log)
      <4>1. SUFFICES ASSUME limit >= 2 PROVE list[1] = Len(log)
        OBVIOUS
      <4>2. Sound
        BY <4>1, <2>1 DEF Sound
      <4>3. QED BY <4>2, <3>1, Lengths
    <3>4. QED BY <3>1, <3>2, <3>3, <2>1, <1>0 DEF Knows
  <2>5. QED BY <2>2, <2>3, <2>4
<1>8. ASSUME NEW c \in Clients, FindSequence(c) PROVE Knows(d)'
  <2>1. UNCHANGED <<log, limit, op, mark, raced, crashed>> /\ pc[c] = "find"
    BY <1>8 DEF FindSequence, At
  <2>2. Knows(d)
    BY <2>1, <1>0
  <2>3. CASE d # c
    <3>1. Same
      <4>1. CASE SequenceAt(seq[c]) = {}
        BY <1>8, <2>1, <2>3, <4>1 DEF FindSequence, Return, Goto, TypeInv, RollerTypeOK
      <4>2. CASE SequenceAt(seq[c]) # {}
        <5>1. PICK i \in DOMAIN list : taken' = [taken EXCEPT ![c] = list[i]]
          BY <1>8, <4>2 DEF FindSequence
        <5>2. QED BY <1>8, <2>1, <2>3, <4>2, <5>1 DEF FindSequence, Goto, TypeInv, RollerTypeOK
      <4>3. QED BY <4>1, <4>2
    <3>2. QED BY <3>1, <2>1, <1>1
  <2>4. CASE d = c /\ limit >= 2
    <3>1. Sound
      BY <2>1, <2>4 DEF Sound
    <3>2. QED BY <3>1, <2>1, <2>4, <1>8, FindKnows
  <2>5. CASE d = c /\ ~(limit >= 2)
    <3>1. pc'[d] \in {"idle", "use"}
      BY <1>8, <2>5 DEF FindSequence, Return, Goto, TypeInv, RollerTypeOK
    <3>2. mark[d] >= 1 /\ mark[d] \in 0..Len(log)
      BY <2>1, <2>2, <2>5 DEF Knows
    <3>3. QED BY <3>1, <3>2, <2>1, <2>5 DEF Knows
  <2>6. QED BY <2>3, <2>4, <2>5
<1>9. ASSUME NEW c \in Clients, Use(c) PROVE Knows(d)'
  <2>1. /\ UNCHANGED <<log, limit, op, mark, raced, crashed>>
        /\ pc' = [pc EXCEPT ![c] = "idle"] /\ result' = [result EXCEPT ![c] = "success"]
        /\ seq' = [seq EXCEPT ![c] = 0] /\ taken' = [taken EXCEPT ![c] = 0]
    BY <1>9 DEF Use, Return, Goto
  <2>2. Knows(d)
    BY <2>1, <1>0
  <2>3. CASE d # c
    BY <1>1, <2>1, <2>3 DEF TypeInv, RollerTypeOK
  <2>4. CASE d = c
    <3>1. pc'[d] = "idle" /\ result'[d] = "success"
      BY <2>1, <2>4 DEF TypeInv, RollerTypeOK
    <3>2. QED BY <3>1, <2>1, <2>2 DEF Knows
  <2>5. QED BY <2>3, <2>4
<1>10. ASSUME Shutdown PROVE Knows(d)'
  <2>1. pc'[d] = "idle" /\ result'[d] = "none" /\ mark'[d] = 0 /\ log' = <<>>
    BY <1>10 DEF Shutdown
  <2>2. QED BY <2>1 DEF Knows
<1>11. CASE UNCHANGED rollerVars
  BY <1>11, <1>1 DEF rollerVars
<1>12. QED
  BY <1>2, <1>3, <1>4, <1>5, <1>6, <1>7, <1>8, <1>9, <1>10, <1>11 DEF RollerNext, RollerClient

(* A rollback to the last good checkpoint reads freed memory, or misses a    *)
(* checkpoint that existed, only if limit newer ones were created during it. *)
THEOREM RollerLastGood == RollerSpec => []LastGoodWindow
<1>1. RollerInit => TypeInv /\ RollerInv
  BY TypeStart, RollerStart
<1>2. RollerInit => WindowInv
  BY DEF RollerInit, WindowInv
<1>3. TypeInv /\ RollerInv /\ [RollerNext]_rollerVars => TypeInv' /\ RollerInv'
  BY TypeStep, RollerStep
<1>4. TypeInv /\ RollerInv /\ WindowInv /\ [RollerNext]_rollerVars => WindowInv'
  BY WindowStep
<1>5. TypeInv /\ RollerInv /\ WindowInv => LastGoodWindow
  BY WindowSuffices
<1>6. QED BY <1>1, <1>2, <1>3, <1>4, <1>5, PTL DEF RollerSpec

-----------------------------------------------------------------------------
(* The limit *)

(* No limit below two is ever in force.                                     *)
AllowTwo == DefaultLimit >= 2 /\ \A l \in Limits : l >= 2
LimitInv == limit >= 2 /\ ~crashed

LEMMA LimitStep ==
  ASSUME AllowTwo, TypeInv, LimitInv, [RollerNext]_rollerVars
  PROVE  LimitInv'
<1>1. ASSUME UNCHANGED <<limit, crashed>> PROVE LimitInv'
  BY <1>1 DEF LimitInv
<1>2. ASSUME NEW c \in Clients, InitLimit(c) PROVE LimitInv'
  BY <1>2 DEF InitLimit, AllowTwo, LimitInv
<1>3. ASSUME NEW c \in Clients, Insert(c) PROVE LimitInv'
  <2>1. ~TrimCrashes(<<Len(log) + 1>> \o list)
    BY DEF TrimCrashes, LimitInv, TypeInv, RollerTypeOK
  <2>2. UNCHANGED <<limit, crashed>>
    BY <1>3, <2>1 DEF Insert
  <2>3. QED BY <1>1, <2>2
<1>4. ASSUME NEW c \in Clients, NEW s \in Sequences,
             CreateCall(c, s) \/ RollbackCall(c, s)
      PROVE LimitInv'
  BY <1>1, <1>4 DEF CreateCall, RollbackCall, shared
<1>5. ASSUME NEW c \in Clients,
             InitTest(c) \/ InitReset(c) \/ GetLast(c) \/ FindSequence(c) \/ Use(c)
      PROVE LimitInv'
  BY <1>1, <1>5 DEF InitTest, InitReset, GetLast, FindSequence, Use, shared
<1>6. CASE Shutdown \/ UNCHANGED rollerVars
  BY <1>1, <1>6 DEF Shutdown, rollerVars, shared
<1>7. QED BY <1>2, <1>3, <1>4, <1>5, <1>6 DEF RollerNext, RollerClient

(* When no limit below two is ever configured, g_max_checkpoints is indeed    *)
(* the maximum, however threads create and shut down, and the trimming        *)
(* follows no null pointer.  A run shows what the two other limits do.        *)
THEOREM RollerLimit ==
    ASSUME AllowTwo
    PROVE  RollerSpec => []WithinLimit
<1>1. RollerInit => TypeInv /\ RollerInv /\ LimitInv
  <2>1. RollerInit => LimitInv
    BY DEF RollerInit, LimitInv, AllowTwo
  <2>2. QED BY <2>1, TypeStart, RollerStart
<1>2. TypeInv /\ RollerInv /\ LimitInv /\ [RollerNext]_rollerVars => TypeInv' /\ RollerInv' /\ LimitInv'
  BY TypeStep, RollerStep, LimitStep
<1>3. TypeInv /\ RollerInv /\ LimitInv => WithinLimit
  <2> SUFFICES ASSUME TypeInv, RollerInv, LimitInv, ~raced PROVE ~crashed /\ Len(list) <= limit
    BY DEF WithinLimit
  <2>1. Sound
    BY DEF Sound, LimitInv
  <2>2. KeptCount <= limit /\ Len(list) = KeptCount
    BY <2>1, Lengths
  <2>3. QED BY <2>1, <2>2 DEF Sound
<1>4. QED BY <1>1, <1>2, <1>3, PTL DEF RollerSpec

-----------------------------------------------------------------------------
(* The files and their copies *)

(* Both are looked at alike: what is stored under a name or as a copy.       *)
Stored    == Files \cup DOMAIN copies
On(x)     == IF x \in Files THEN disk[x] ELSE copies[x]
FileOf(x) == IF x \in Files THEN x ELSE x.file

DiskType == disk \in [Files -> FileContent]
CopyType == DOMAIN copies \subseteq Names /\ \A n \in DOMAIN copies : copies[n] \in FileContent
JobType  == job \in [Repairers -> Jobs \cup {Idle}] /\ \A t \in Open : job[t].name \in DOMAIN copies
RestType == /\ tick \in 0..MaxTick /\ put \in Dirs /\ search \in Dirs
            /\ version \in 0..MaxVersion /\ torn \subseteq Stored
FilesTypes == DiskType /\ CopyType /\ JobType /\ RestType

LEMMA ContentSeq == \A c : c \in FileContent <=> c \in Seq(Block) /\ Len(c) <= Blocks
<1> USE FileAssumption DEF FileAssumption
<1>1. ASSUME NEW c, c \in FileContent PROVE c \in Seq(Block) /\ Len(c) <= Blocks
  <2>1. PICK n \in 0..Blocks : c \in [1..n -> Block]
    BY <1>1 DEF FileContent
  <2>2. c \in Seq(Block) /\ Len(c) = n
    BY <2>1
  <2>3. QED BY <2>2
<1>2. ASSUME NEW c, c \in Seq(Block), Len(c) <= Blocks PROVE c \in FileContent
  <2>1. c \in [1..Len(c) -> Block] /\ Len(c) \in 0..Blocks
    BY <1>2
  <2>2. QED BY <2>1 DEF FileContent
<1>3. QED BY <1>1, <1>2

LEMMA WholeContent ==
    ASSUME NEW f \in Files, NEW v \in 0..MaxVersion
    PROVE  /\ Whole(f, v) \in FileContent /\ Len(Whole(f, v)) = Blocks
           /\ \A k \in 1..Blocks : Whole(f, v)[k] = <<f, v>>
<1>1. Whole(f, v) \in Seq(Block) /\ Len(Whole(f, v)) = Blocks
  BY FileAssumption DEF FileAssumption, Whole, Block
<1>2. Whole(f, v) \in FileContent
  BY <1>1, ContentSeq, FileAssumption DEF FileAssumption
<1>3. QED BY <1>1, <1>2 DEF Whole

(* Writing block i keeps the others; behind the end it leaves a gap.        *)
LEMMA PutBlock ==
    ASSUME NEW s \in FileContent, NEW i \in 1..Blocks, NEW b \in Block
    PROVE  /\ Put(s, i, b) \in FileContent
           /\ Len(Put(s, i, b)) = IF Len(s) < i THEN i ELSE Len(s)
           /\ \A k \in 1..Len(Put(s, i, b)) :
                 Put(s, i, b)[k] = IF k = i THEN b ELSE IF k <= Len(s) THEN s[k] ELSE Gap
<1> DEFINE n == IF Len(s) < i THEN i ELSE Len(s)
           at(k) == IF k = i THEN b ELSE IF k <= Len(s) THEN s[k] ELSE Gap
<1>1. s \in Seq(Block) /\ Len(s) \in Nat /\ Len(s) <= Blocks /\ Blocks \in Nat
  BY ContentSeq, FileAssumption DEF FileAssumption
<1>2. n \in Nat /\ n <= Blocks
  BY <1>1
<1>3. \A k \in 1..n : at(k) \in Block
  BY <1>1 DEF Block
<1>4. Put(s, i, b) = [k \in 1..n |-> at(k)]
  BY DEF Put
<1> HIDE DEF n, at
<1>5. Put(s, i, b) \in Seq(Block) /\ Len(Put(s, i, b)) = n
  BY <1>2, <1>3, <1>4
<1>6. \A k \in 1..n : Put(s, i, b)[k] = at(k)
  BY <1>4
<1>7. Put(s, i, b) \in FileContent
  BY <1>2, <1>5, ContentSeq
<1>8. QED BY <1>5, <1>6, <1>7 DEF n, at

(* What a call that is open reads and writes.                               *)
LEMMA JobParts ==
    ASSUME FilesTypes, NEW j \in Jobs, j.name \in DOMAIN copies
    PROVE  /\ Reads(j) \in Stored /\ Writes(j) \in Stored /\ Reads(j) # Writes(j)
           /\ Source(j) = On(Reads(j)) /\ j # Idle /\ j.pos \in 1..(Blocks + 1)
<1>1. /\ j.kind \in {"backup", "restore"} /\ j.file \in Files /\ j.name \in Names
      /\ j.pos \in 1..(Blocks + 1) /\ j # Idle
  BY DEF Jobs, Idle
<1>2. j.name \notin Files /\ j.name \in Stored /\ j.file \in Stored
  BY <1>1, FileAssumption DEF FileAssumption, Stored
<1>3. CASE j.kind = "backup"
  BY <1>1, <1>2, <1>3 DEF Reads, Writes, Source, On
<1>4. CASE j.kind = "restore"
  BY <1>1, <1>2, <1>4 DEF Reads, Writes, Source, On
<1>5. QED BY <1>1, <1>3, <1>4

LEMMA OpenParts ==
    ASSUME FilesTypes, NEW t \in Repairers, job[t] # Idle
    PROVE  /\ t \in Open /\ job[t] \in Jobs /\ job[t].name \in DOMAIN copies
           /\ Reads(job[t]) \in Stored /\ Writes(job[t]) \in Stored /\ Reads(job[t]) # Writes(job[t])
           /\ Source(job[t]) = On(Reads(job[t])) /\ job[t].pos \in 1..(Blocks + 1)
<1>1. t \in Open /\ job[t] \in Jobs /\ job[t].name \in DOMAIN copies
  BY DEF FilesTypes, JobType, Open
<1>2. QED BY <1>1, JobParts

LEMMA StoredContent == ASSUME FilesTypes, NEW x \in Stored PROVE On(x) \in FileContent
BY DEF FilesTypes, DiskType, CopyType, Stored, On

(* Everything a call may do when it begins: it empties what it will write.   *)
Calls(t, j) ==
    /\ job[t] = Idle /\ j \in Jobs /\ j.pos = 1 /\ j.name \in DOMAIN copies'
    /\ Reads(j) \in Stored /\ Reads(j) # Writes(j) /\ Begin(t, j)
    /\ Stored' = Stored \cup {Writes(j)} /\ On(Writes(j))' = <<>>
    /\ \A x \in Stored : x # Writes(j) => On(x)' = On(x)
    /\ <<FileOf(Writes(j)), FileOf(Reads(j))>> \in Contains
    /\ DOMAIN copies \subseteq DOMAIN copies' /\ CopyType' /\ DiskType'
    /\ UNCHANGED <<version, tick, put, search>>

LEMMA CallBegins ==
    ASSUME FilesTypes, NEW t \in Repairers, NEW f \in Files, BackupCall(t, f) \/ RestoreFile(t, f)
    PROVE  \E j : Calls(t, j)
<1> USE FileAssumption DEF FileAssumption
<1>0. /\ disk \in [Files -> FileContent] /\ DOMAIN copies \subseteq Names
      /\ \A n \in DOMAIN copies : copies[n] \in FileContent
      /\ tick \in 0..MaxTick /\ put \in Dirs
  BY DEF FilesTypes, DiskType, CopyType, RestType
<1>1. <<>> \in FileContent
  <2>1. <<>> \in Seq(Block) /\ Len(<<>>) <= Blocks
    OBVIOUS
  <2>2. QED BY <2>1, ContentSeq, Zenon
<1>2. CASE BackupCall(t, f)
  <2>0. PICK d, k : d = put /\ k = tick
    OBVIOUS
  <2> DEFINE name == [file |-> f, dir |-> d, at |-> k]
             j == [kind |-> "backup", file |-> f, name |-> name, pos |-> 1]
  <2>1. name \in Names /\ name \notin Files /\ name.file = f
    BY <1>0, <2>0 DEF Names
  <2>2. j \in Jobs /\ j.kind = "backup" /\ j.file = f /\ j.name = name /\ j.pos = 1
    BY <2>1 DEF Jobs
  <2>3. Reads(j) = f /\ Writes(j) = name
    BY <2>2 DEF Reads, Writes
  <2>4. /\ job[t] = Idle /\ Begin(t, j) /\ UNCHANGED <<disk, version, tick, put, search>>
        /\ copies' = [n \in DOMAIN copies \cup {name} |-> IF n = name THEN <<>> ELSE copies[n]]
    BY <1>2, <2>0 DEF BackupCall
  <2> HIDE DEF name, j
  <2>5. DOMAIN copies' = DOMAIN copies \cup {name} /\ copies'[name] = <<>>
        /\ \A n \in DOMAIN copies : n # name => copies'[n] = copies[n]
    BY <2>4
  <2>6. Stored' = Stored \cup {Writes(j)} /\ On(Writes(j))' = <<>>
    BY <2>1, <2>3, <2>4, <2>5 DEF Stored, On
  <2>7. \A x \in Stored : x # Writes(j) => On(x)' = On(x)
    BY <2>3, <2>4, <2>5 DEF Stored, On
  <2>8. CopyType' /\ DiskType'
    BY <1>0, <1>1, <2>1, <2>4, <2>5 DEF CopyType, DiskType
  <2>9. <<FileOf(Writes(j)), FileOf(Reads(j))>> \in Contains
    BY <2>1, <2>3 DEF FileOf
  <2>10. Reads(j) \in Stored /\ Reads(j) # Writes(j)
    BY <2>1, <2>3 DEF Stored
  <2>11. QED BY <2>2, <2>4, <2>5, <2>6, <2>7, <2>8, <2>9, <2>10 DEF Calls
<1>3. CASE RestoreFile(t, f)
  <2>1. PICK n \in List(f) : Begin(t, [kind |-> "restore", file |-> f, name |-> n, pos |-> 1])
    BY <1>3 DEF RestoreFile
  <2> DEFINE j == [kind |-> "restore", file |-> f, name |-> n, pos |-> 1]
  <2>2. n \in DOMAIN copies /\ n \in Names /\ n \notin Files /\ <<f, n.file>> \in Contains
    BY <1>0 DEF List
  <2>3. j \in Jobs /\ j.kind = "restore" /\ j.file = f /\ j.name = n /\ j.pos = 1
    BY <2>2 DEF Jobs
  <2>4. Reads(j) = n /\ Writes(j) = f
    BY <2>3 DEF Reads, Writes
  <2>5. /\ job[t] = Idle /\ Begin(t, j) /\ UNCHANGED <<version, copies, tick, put, search>>
        /\ disk' = [disk EXCEPT ![f] = <<>>]
    BY <1>3, <2>1 DEF RestoreFile
  <2> HIDE DEF j
  <2>6. Stored' = Stored \cup {Writes(j)} /\ On(Writes(j))' = <<>>
    BY <1>0, <2>4, <2>5 DEF Stored, On
  <2>7. \A x \in Stored : x # Writes(j) => On(x)' = On(x)
    BY <1>0, <2>4, <2>5 DEF Stored, On
  <2>8. CopyType' /\ DiskType'
    BY <1>0, <1>1, <2>5 DEF CopyType, DiskType
  <2>9. <<FileOf(Writes(j)), FileOf(Reads(j))>> \in Contains
    BY <2>2, <2>4 DEF FileOf
  <2>10. Reads(j) \in Stored /\ Reads(j) # Writes(j)
    BY <2>2, <2>4 DEF Stored
  <2>11. QED BY <2>2, <2>3, <2>5, <2>6, <2>7, <2>8, <2>9, <2>10 DEF Calls
<1>4. QED BY <1>2, <1>3

(* A step of a copy writes one block, and the call is at the next.           *)
Copies(t, j) ==
    /\ j # Idle /\ j.pos <= Len(Source(j))
    /\ On(Writes(j))' = Put(On(Writes(j)), j.pos, Source(j)[j.pos])
    /\ \A x \in Stored : x # Writes(j) => On(x)' = On(x)
    /\ job' = [job EXCEPT ![t].pos = j.pos + 1]
    /\ DOMAIN copies' = DOMAIN copies
    /\ UNCHANGED <<version, tick, put, search, torn>>

LEMMA CopyWrites ==
    ASSUME FilesTypes, NEW t \in Repairers, NEW j, j = job[t], CopyBlocks(t)
    PROVE  Copies(t, j)
<1>1. /\ disk \in [Files -> FileContent] /\ DOMAIN copies \subseteq Names /\ Names \cap Files = {}
      /\ job \in [Repairers -> Jobs \cup {Idle}]
  BY FileAssumption DEF FileAssumption, FilesTypes, DiskType, CopyType, JobType
<1>2. /\ j # Idle /\ j.pos <= Len(Source(j)) /\ UNCHANGED <<version, tick, put, search, torn>>
      /\ job' = [job EXCEPT ![t].pos = j.pos + 1]
  BY <1>1 DEF CopyBlocks
<1>3. j \in Jobs /\ j.name \in DOMAIN copies
  BY <1>2, OpenParts
<1>4. j.kind \in {"backup", "restore"} /\ j.file \in Files
  BY <1>3 DEF Jobs
<1>5. PICK b : b = Source(j)[j.pos]
  OBVIOUS
<1>6. CASE j.kind = "backup"
  <2>1. Writes(j) = j.name /\ j.name \notin Files
    BY <1>1, <1>3, <1>6 DEF Writes
  <2>2. copies' = [copies EXCEPT ![j.name] = Put(copies[j.name], j.pos, b)] /\ disk' = disk
    BY <1>5, <1>6 DEF CopyBlocks
  <2>3. DOMAIN copies' = DOMAIN copies /\ copies'[j.name] = Put(copies[j.name], j.pos, b)
        /\ \A n \in DOMAIN copies : n # j.name => copies'[n] = copies[n]
    BY <1>3, <2>2
  <2>4. On(Writes(j))' = Put(On(Writes(j)), j.pos, b)
    BY <2>1, <2>3 DEF On
  <2>5. \A x \in Stored : x # Writes(j) => On(x)' = On(x)
    BY <2>1, <2>2, <2>3 DEF On, Stored
  <2>6. QED BY <1>2, <1>5, <2>3, <2>4, <2>5 DEF Copies
<1>7. CASE j.kind = "restore"
  <2>1. Writes(j) = j.file
    BY <1>7 DEF Writes
  <2>2. disk' = [disk EXCEPT ![j.file] = Put(disk[j.file], j.pos, b)] /\ copies' = copies
    BY <1>5, <1>7 DEF CopyBlocks
  <2>3. On(Writes(j))' = Put(On(Writes(j)), j.pos, b)
    BY <1>1, <1>4, <2>1, <2>2 DEF On
  <2>4. \A x \in Stored : x # Writes(j) => On(x)' = On(x)
    BY <1>1, <2>1, <2>2 DEF On, Stored
  <2>5. QED BY <1>2, <1>5, <2>2, <2>3, <2>4 DEF Copies
<1>8. QED BY <1>4, <1>6, <1>7

(* What the steps that copy nothing do with what is stored.                  *)
LEMMA ReplaceWrites ==
    ASSUME FilesTypes, NEW f \in Files, Replace(f)
    PROVE  /\ version' = version + 1 /\ version' \in 0..MaxVersion
           /\ On(f)' = Whole(f, version') /\ Stored' = Stored
           /\ \A x \in Stored : x # f => On(x)' = On(x)
           /\ DiskType' /\ CopyType'
<1>1. /\ version' = version + 1 /\ version < MaxVersion /\ version \in 0..MaxVersion
      /\ disk' = [disk EXCEPT ![f] = Whole(f, version')] /\ copies' = copies
      /\ disk \in [Files -> FileContent] /\ CopyType
  BY DEF Replace, FilesTypes, DiskType, RestType
<1>2. version' \in 0..MaxVersion
  BY <1>1, FileAssumption DEF FileAssumption
<1>3. Whole(f, version') \in FileContent
  BY <1>2, WholeContent
<1>4. DiskType' /\ CopyType'
  BY <1>1, <1>3 DEF DiskType, CopyType
<1>5. On(f)' = Whole(f, version') /\ \A x \in Stored : x # f => On(x)' = On(x)
  BY <1>1 DEF On
<1>6. Stored' = Stored
  BY <1>1 DEF Stored
<1>7. QED BY <1>1, <1>2, <1>4, <1>5, <1>6

(* A new call leaves the others open.                                       *)
LEMMA OpenAfter ==
    ASSUME FilesTypes, NEW t \in Repairers, NEW j, Calls(t, j)
    PROVE  /\ Open' = Open \cup {t} /\ t \notin Open /\ job'[t] = j
           /\ \A u \in Open : u # t /\ job'[u] = job[u]
           /\ torn' = (torn \ {Writes(j)})
                        \cup (IF Reads(j) \in torn \/ \E u \in Open : CutBy(j, job[u]) THEN {Writes(j)} ELSE {})
                        \cup {Writes(job[u]) : u \in {v \in Open : CutBy(job[v], j)}}
<1>1. /\ job \in [Repairers -> Jobs \cup {Idle}] /\ job' = [job EXCEPT ![t] = j]
      /\ job[t] = Idle /\ j # Idle
  BY DEF FilesTypes, JobType, Calls, Begin, Jobs, Idle
<1>2. job'[t] = j /\ \A u \in Repairers : u # t => job'[u] = job[u]
  BY <1>1
<1>3. Open' = Open \cup {t} /\ t \notin Open
  BY <1>1, <1>2 DEF Open
<1>4. \A u \in Open : u # t /\ job'[u] = job[u]
  BY <1>2, <1>3 DEF Open
<1>5. QED BY <1>2, <1>3, <1>4 DEF Calls, Begin

LEMMA FilesTypeStep == ASSUME FilesTypes, [FilesNext]_filesVars PROVE FilesTypes'
<1>0. DiskType /\ CopyType /\ JobType /\ RestType
  BY DEF FilesTypes
<1>1. ASSUME NEW t \in Repairers, NEW j, Calls(t, j) PROVE FilesTypes'
  <2>1. DiskType' /\ CopyType' /\ Writes(j) \in Stored' /\ Stored \subseteq Stored'
    BY <1>1 DEF Calls
  <2>2. JobType'
    <3>1. job' \in [Repairers -> Jobs \cup {Idle}]
      BY <1>0, <1>1 DEF JobType, Calls, Begin
    <3>2. \A u \in Open' : job'[u].name \in DOMAIN copies'
      BY <1>0, <1>1, OpenAfter DEF JobType, Calls
    <3>3. QED BY <3>1, <3>2 DEF JobType
  <2>3. RestType'
    <3>1. torn \subseteq Stored /\ \A u \in Open : Writes(job[u]) \in Stored
      BY <1>0, OpenParts DEF RestType, Open
    <3>2. torn' \subseteq Stored'
      BY <1>1, <2>1, <3>1, OpenAfter
    <3>3. QED BY <1>0, <1>1, <3>2 DEF RestType, Calls
  <2>4. QED BY <2>1, <2>2, <2>3 DEF FilesTypes
<1>2. ASSUME NEW t \in Repairers, CopyBlocks(t) PROVE FilesTypes'
  <2>1. PICK j : j = job[t]
    OBVIOUS
  <2>2. Copies(t, j)
    BY <1>2, <2>1, CopyWrites
  <2>3. /\ j \in Jobs /\ j.name \in DOMAIN copies /\ j.pos \in 1..(Blocks + 1)
        /\ Reads(j) \in Stored /\ Writes(j) \in Stored /\ Source(j) = On(Reads(j))
    BY <2>1, <2>2, OpenParts DEF Copies
  <2>4. On(Reads(j)) \in FileContent /\ On(Writes(j)) \in FileContent
    BY <2>3, StoredContent
  <2>5. On(Reads(j)) \in Seq(Block) /\ Len(On(Reads(j))) <= Blocks
    BY <2>4, ContentSeq
  <2>6. j.pos \in 1..Blocks /\ On(Reads(j))[j.pos] \in Block
    <3>1. j.pos \in 1..Len(On(Reads(j))) /\ Len(On(Reads(j))) \in Nat /\ Blocks \in Nat
      BY <2>2, <2>3, <2>5, FileAssumption DEF FileAssumption, Copies
    <3>2. QED BY <2>5, <3>1
  <2>7. On(Writes(j))' \in FileContent
    BY <2>2, <2>3, <2>4, <2>6, PutBlock DEF Copies
  <2>8. Stored' = Stored /\ DOMAIN copies' = DOMAIN copies
    BY <2>2 DEF Copies, Stored
  <2>9. \A x \in Stored : On(x)' \in FileContent
    BY <2>2, <2>7, StoredContent DEF Copies
  <2>10. CopyType'
    <3>1. \A n \in DOMAIN copies : n \in Stored /\ n \notin Files
      BY <1>0, FileAssumption DEF FileAssumption, CopyType, Stored
    <3>2. \A n \in DOMAIN copies : copies'[n] \in FileContent
      BY <2>9, <3>1 DEF On
    <3>3. QED BY <1>0, <2>8, <3>2 DEF CopyType
  <2>11. DiskType'
    <3>1. \A f \in Files : disk'[f] \in FileContent
      BY <2>9 DEF On, Stored
    <3>2. disk' = disk \/ \E f, c : disk' = [disk EXCEPT ![f] = c]
      BY <1>2 DEF CopyBlocks
    <3>3. QED BY <1>0, <3>1, <3>2 DEF DiskType
  <2>12. JobType'
    <3>1. [j EXCEPT !.pos = j.pos + 1] \in Jobs /\ [j EXCEPT !.pos = j.pos + 1].name = j.name
      <4>1. j.pos + 1 \in 1..(Blocks + 1)
        BY <2>6, FileAssumption DEF FileAssumption
      <4>2. PICK p : p = j.pos + 1
        OBVIOUS
      <4>3. [j EXCEPT !.pos = p] \in Jobs /\ [j EXCEPT !.pos = p].name = j.name
        BY <2>3, <4>1, <4>2 DEF Jobs
      <4>4. QED BY <4>2, <4>3
    <3>2. job' = [job EXCEPT ![t] = [j EXCEPT !.pos = j.pos + 1]]
      BY <2>1, <2>2 DEF Copies
    <3>3. job' \in [Repairers -> Jobs \cup {Idle}]
      BY <1>0, <3>1, <3>2 DEF JobType
    <3>4. \A u \in Open' : job'[u].name \in DOMAIN copies
      BY <1>0, <2>3, <3>1, <3>2, OpenParts DEF JobType, Open
    <3>5. QED BY <2>8, <3>3, <3>4 DEF JobType
  <2>13. RestType'
    BY <1>0, <2>2, <2>8 DEF RestType, Copies
  <2>14. QED BY <2>10, <2>11, <2>12, <2>13 DEF FilesTypes
<1>3. ASSUME NEW t \in Repairers, Close(t) PROVE FilesTypes'
  <2>1. JobType'
    BY <1>0, <1>3 DEF JobType, Close, Open
  <2>2. DiskType' /\ CopyType' /\ RestType'
    BY <1>0, <1>3 DEF DiskType, CopyType, RestType, Close, Stored
  <2>3. QED BY <2>1, <2>2 DEF FilesTypes
<1>4. ASSUME NEW d \in Dirs, SetDirectory(d) \/ BackupInit(d) PROVE FilesTypes'
  BY <1>0, <1>4 DEF FilesTypes, DiskType, CopyType, JobType, RestType, SetDirectory, BackupInit, Stored, Open
<1>5. ASSUME NEW f \in Files, Replace(f) PROVE FilesTypes'
  <2>1. UNCHANGED <<copies, tick, put, search, job>> /\ f \in Stored
    BY <1>5 DEF Replace, Stored
  <2>2. \A u \in Open : Writes(job[u]) \in Stored
    BY OpenParts DEF Open
  <2>3. torn' \subseteq Stored'
    BY <1>0, <1>5, <2>2, ReplaceWrites DEF RestType, Replace
  <2>4. RestType'
    BY <1>0, <1>5, <2>1, <2>3, ReplaceWrites DEF RestType
  <2>5. JobType'
    BY <1>0, <2>1 DEF JobType, Open
  <2>6. QED BY <1>5, <2>4, <2>5, ReplaceWrites DEF FilesTypes
<1>6. ASSUME Tick PROVE FilesTypes'
  <2>1. tick' \in 0..MaxTick
    BY <1>0, <1>6, FileAssumption DEF FileAssumption, RestType, Tick
  <2>2. QED BY <1>0, <1>6, <2>1 DEF FilesTypes, DiskType, CopyType, JobType, RestType, Tick, Stored, Open
<1>7. ASSUME Crash PROVE FilesTypes'
  <2>1. \A u \in Open : Writes(job[u]) \in Stored
    BY OpenParts DEF Open
  <2>2. torn' \subseteq Stored'
    BY <1>0, <1>7, <2>1 DEF RestType, Crash, Stored
  <2>3. RestType'
    BY <1>0, <1>7, <2>2, FileAssumption DEF FileAssumption, RestType, Crash
  <2>4. JobType'
    BY <1>0, <1>7 DEF JobType, Crash, Open
  <2>5. DiskType' /\ CopyType'
    BY <1>0, <1>7 DEF DiskType, CopyType, Crash
  <2>6. QED BY <2>3, <2>4, <2>5 DEF FilesTypes
<1>8. CASE UNCHANGED filesVars
  BY <1>0, <1>8 DEF FilesTypes, DiskType, CopyType, JobType, RestType, filesVars, Stored, Open
<1>9. ASSUME NEW t \in Repairers, NEW f \in Files, BackupCall(t, f) \/ RestoreFile(t, f) PROVE FilesTypes'
  BY <1>1, <1>9, CallBegins
<1>10. QED BY <1>2, <1>3, <1>4, <1>5, <1>6, <1>7, <1>8, <1>9, Zenon DEF FilesNext

LEMMA FilesStart == FilesInit => FilesTypes
<1> SUFFICES ASSUME FilesInit PROVE FilesTypes
  OBVIOUS
<1> USE FileAssumption DEF FileAssumption, FilesInit
<1>1. \A f \in Files : Whole(f, 0) \in FileContent
  BY WholeContent
<1>2. DiskType
  BY <1>1 DEF DiskType
<1>3. DOMAIN copies = {}
  OBVIOUS
<1>4. CopyType /\ RestType
  BY <1>3 DEF CopyType, RestType
<1>5. JobType
  BY DEF JobType, Open
<1>6. QED BY <1>2, <1>4, <1>5 DEF FilesTypes

(* Every variable of the restorer and the backup manager keeps its type.     *)
THEOREM FilesTypeCorrect == FilesSpec => []FilesTypeOK
<1>1. FilesTypes => FilesTypeOK
  BY DEF FilesTypes, DiskType, CopyType, JobType, RestType, Stored, FilesTypeOK
<1>2. QED BY <1>1, FilesStart, FilesTypeStep, PTL DEF FilesSpec

-----------------------------------------------------------------------------
(* What is whole *)

(* An open call whose copy nothing cut into works alone, from a whole source, *)
(* and has written the first blocks of it.                                  *)
Alone(t) == \A u \in Open : u # t => ~CutBy(job[t], job[u])
Begun(j) == /\ Len(On(Writes(j))) = j.pos - 1 /\ j.pos - 1 <= Len(On(Reads(j)))
            /\ \A k \in 1..(j.pos - 1) : On(Writes(j))[k] = On(Reads(j))[k]
Unharmed == \A t \in Open : Writes(job[t]) \notin torn =>
                Alone(t) /\ Reads(job[t]) \notin torn /\ Begun(job[t])
AllWhole == \A x \in Stored \ torn : (\A t \in Open : Writes(job[t]) # x) => IsWhole(On(x))
WholeInv == AllWhole /\ Unharmed

LEMMA SameWhole ==
    ASSUME FilesTypes, NEW c, IsWhole(c), version' = version \/ version' = version + 1
    PROVE  IsWhole(c)'
<1>1. version \in Nat /\ version' \in Nat /\ version <= version'
  BY FileAssumption DEF FileAssumption, FilesTypes, RestType
<1>2. QED BY <1>1 DEF IsWhole

LEMMA CallsWhole ==
    ASSUME FilesTypes, WholeInv, NEW t \in Repairers, NEW j, Calls(t, j)
    PROVE  WholeInv'
<1>1. /\ Open' = Open \cup {t} /\ t \notin Open /\ job'[t] = j
      /\ \A u \in Open : u # t /\ job'[u] = job[u]
  BY OpenAfter
<1>2. torn' = (torn \ {Writes(j)})
                \cup (IF Reads(j) \in torn \/ \E u \in Open : CutBy(j, job[u]) THEN {Writes(j)} ELSE {})
                \cup {Writes(job[u]) : u \in {v \in Open : CutBy(job[v], j)}}
  BY OpenAfter
<1>3. /\ Stored' = Stored \cup {Writes(j)} /\ On(Writes(j))' = <<>> /\ j.pos = 1
      /\ \A x \in Stored : x # Writes(j) => On(x)' = On(x)
      /\ Reads(j) \in Stored /\ Reads(j) # Writes(j) /\ version' = version
  BY DEF Calls
<1>4. AllWhole'
  <2> SUFFICES ASSUME NEW x \in Stored', x \notin torn', \A u \in Open' : Writes(job'[u]) # x
               PROVE  IsWhole(On(x))'
    BY DEF AllWhole
  <2>1. x # Writes(j) /\ x \in Stored /\ x \notin torn /\ \A u \in Open : Writes(job[u]) # x
    BY <1>1, <1>2, <1>3
  <2>2. IsWhole(On(x)) /\ On(x)' = On(x)
    BY <1>3, <2>1 DEF WholeInv, AllWhole
  <2>3. PICK c : c = On(x)
    OBVIOUS
  <2>4. IsWhole(c)'
    BY <1>3, <2>2, <2>3, SameWhole
  <2>5. On(x)' = c
    BY <2>2, <2>3
  <2>6. QED BY <2>4, <2>5 DEF IsWhole
<1>5. ASSUME NEW u \in Open', Writes(job'[u]) \notin torn'
      PROVE  Alone(u)' /\ Reads(job'[u]) \notin torn' /\ Begun(job[u])'
  <2>1. CASE u = t
    <3>1. Reads(j) \notin torn /\ \A v \in Open : ~CutBy(j, job[v])
      BY <1>1, <1>2, <1>5, <2>1
    <3>2. Alone(u)'
      BY <1>1, <2>1, <3>1 DEF Alone
    <3>3. Reads(j) \notin torn'
      BY <1>2, <1>3, <3>1 DEF CutBy
    <3>4. On(Reads(j))' \in FileContent
      BY <1>3, StoredContent
    <3>5. Len(On(Reads(j))') \in Nat
      BY <3>4, ContentSeq
    <3>6. Begun(j)'
      BY <1>3, <3>5 DEF Begun
    <3>7. Begun(job[u])'
      BY <1>1, <2>1, <3>6 DEF Begun
    <3>8. QED BY <1>1, <2>1, <3>2, <3>3, <3>7
  <2>2. CASE u \in Open
    <3>0. PICK k : k = job[u]
      OBVIOUS
    <3>1. k = job'[u] /\ ~CutBy(k, j) /\ Writes(k) # Writes(j) /\ Reads(k) # Writes(j)
      BY <1>1, <1>2, <1>5, <2>2, <3>0 DEF CutBy
    <3>2. Writes(k) \notin torn
      BY <1>2, <1>5, <3>1
    <3>3. Alone(u) /\ Reads(k) \notin torn /\ Begun(k)
      BY <2>2, <3>0, <3>2 DEF WholeInv, Unharmed
    <3>4. Reads(k) \in Stored /\ Writes(k) \in Stored /\ Reads(k) # Writes(k)
      BY <2>2, <3>0, OpenParts DEF Open
    <3>5. Alone(u)'
      BY <1>1, <2>2, <3>0, <3>1, <3>3 DEF Alone
    <3>6. Reads(k) \notin torn'
      BY <1>2, <2>2, <3>0, <3>1, <3>3, <3>4 DEF Alone, CutBy
    <3>7. On(Reads(k))' = On(Reads(k)) /\ On(Writes(k))' = On(Writes(k))
      BY <1>3, <3>1, <3>4
    <3>8. QED BY <3>1, <3>3, <3>5, <3>6, <3>7 DEF Begun
  <2>3. QED BY <1>1, <2>1, <2>2
<1>6. QED BY <1>4, <1>5 DEF WholeInv, Unharmed

LEMMA CopyWhole ==
    ASSUME FilesTypes, WholeInv, NEW t \in Repairers, CopyBlocks(t)
    PROVE  WholeInv'
<1>0. PICK j : j = job[t]
  OBVIOUS
<1>1. /\ j # Idle /\ j.pos <= Len(Source(j)) /\ job' = [job EXCEPT ![t].pos = j.pos + 1]
      /\ On(Writes(j))' = Put(On(Writes(j)), j.pos, Source(j)[j.pos])
      /\ \A x \in Stored : x # Writes(j) => On(x)' = On(x)
      /\ Stored' = Stored /\ torn' = torn /\ version' = version
  BY <1>0, CopyWrites DEF Copies, Stored
<1>2. /\ t \in Open /\ j \in Jobs /\ Source(j) = On(Reads(j)) /\ j.pos \in 1..(Blocks + 1)
      /\ Reads(j) \in Stored /\ Writes(j) \in Stored /\ Reads(j) # Writes(j)
  BY <1>0, <1>1, OpenParts
<1>3. \E i : job'[t] = i /\ i.kind = j.kind /\ i.file = j.file /\ i.name = j.name /\ i.pos = j.pos + 1
             /\ i # Idle
  <2>1. j.pos + 1 \in Nat
    BY <1>2, FileAssumption DEF FileAssumption
  <2>2. PICK p : p = j.pos + 1
    OBVIOUS
  <2>3. job'[t] = [j EXCEPT !.pos = p]
    BY <1>0, <1>1, <2>2 DEF FilesTypes, JobType
  <2>4. [j EXCEPT !.pos = p].kind \in {"backup", "restore"} /\ [j EXCEPT !.pos = p] # Idle
    BY <1>2 DEF Jobs, Idle
  <2>5. QED BY <1>2, <2>2, <2>3, <2>4 DEF Jobs
<1>4. PICK i : job'[t] = i /\ i.kind = j.kind /\ i.file = j.file /\ i.name = j.name /\ i.pos = j.pos + 1
               /\ i # Idle
  BY <1>3
<1>5. Reads(i) = Reads(j) /\ Writes(i) = Writes(j)
  BY <1>4 DEF Reads, Writes
<1>6. \A u \in Repairers : u # t => job'[u] = job[u]
  BY <1>1 DEF FilesTypes, JobType
<1>7. Open' = Open
  BY <1>0, <1>1, <1>4, <1>6 DEF Open
<1>8. \A u \in Open : Reads(job'[u]) = Reads(job[u]) /\ Writes(job'[u]) = Writes(job[u])
  BY <1>0, <1>4, <1>5, <1>6 DEF Open
<1>9. AllWhole'
  <2> SUFFICES ASSUME NEW x \in Stored', x \notin torn', \A u \in Open' : Writes(job'[u]) # x
               PROVE  IsWhole(On(x))'
    BY DEF AllWhole
  <2>1. IsWhole(On(x)) /\ On(x)' = On(x)
    BY <1>0, <1>1, <1>2, <1>7, <1>8 DEF WholeInv, AllWhole
  <2>2. QED BY <1>1, <2>1 DEF IsWhole
<1>10. ASSUME NEW u \in Open', Writes(job'[u]) \notin torn'
       PROVE  Alone(u)' /\ Reads(job'[u]) \notin torn' /\ Begun(job[u])'
  <2>1. PICK k : k = job[u]
    OBVIOUS
  <2>2. /\ u \in Open /\ Reads(job'[u]) = Reads(k) /\ Writes(job'[u]) = Writes(k)
        /\ Alone(u) /\ Reads(k) \notin torn /\ Begun(k) /\ Reads(k) \in Stored /\ Writes(k) \in Stored
    BY <1>1, <1>7, <1>8, <1>10, <2>1, OpenParts DEF WholeInv, Unharmed, Open
  <2>3. Alone(u)' /\ Reads(job'[u]) \notin torn'
    BY <1>1, <1>7, <1>8, <2>1, <2>2 DEF Alone, CutBy
  <2>4. CASE u # t
    <3>1. Writes(j) # Reads(k) /\ Writes(j) # Writes(k)
      BY <1>0, <1>2, <2>1, <2>2, <2>4 DEF Alone, CutBy
    <3>2. job'[u] = k /\ On(Reads(k))' = On(Reads(k)) /\ On(Writes(k))' = On(Writes(k))
      BY <1>1, <1>6, <2>1, <2>2, <2>4, <3>1 DEF Open
    <3>3. Begun(k)'
      BY <2>2, <3>2 DEF Begun
    <3>4. QED BY <2>3, <3>2, <3>3 DEF Begun
  <2>5. CASE u = t
    <3>1. PICK p, b, src, dst : p = j.pos /\ src = On(Reads(j)) /\ dst = On(Writes(j)) /\ b = src[p]
      OBVIOUS
    <3>2. /\ src \in FileContent /\ dst \in FileContent /\ src \in Seq(Block) /\ Len(src) \in Nat /\ Len(src) <= Blocks
          /\ Blocks \in Nat /\ p \in Nat \ {0}
      BY <1>2, <3>1, StoredContent, ContentSeq, FileAssumption DEF FileAssumption
    <3>3. p \in 1..Blocks /\ b \in Block /\ p <= Len(src)
      BY <1>1, <1>2, <3>1, <3>2
    <3>4. Len(dst) = p - 1 /\ \A m \in 1..(p - 1) : dst[m] = src[m]
      BY <1>0, <2>1, <2>2, <2>5, <3>1 DEF Begun
    <3>5. PICK new : new = Put(dst, p, b)
      OBVIOUS
    <3>6. /\ Len(new) = IF Len(dst) < p THEN p ELSE Len(dst)
          /\ \A m \in 1..Len(new) : new[m] = IF m = p THEN b ELSE IF m <= Len(dst) THEN dst[m] ELSE Gap
      <4>1. dst \in FileContent /\ p \in 1..Blocks /\ b \in Block
        BY <3>2, <3>3
      <4>2. /\ Len(Put(dst, p, b)) = IF Len(dst) < p THEN p ELSE Len(dst)
            /\ \A m \in 1..Len(Put(dst, p, b)) :
                  Put(dst, p, b)[m] = IF m = p THEN b ELSE IF m <= Len(dst) THEN dst[m] ELSE Gap
        BY <4>1, PutBlock, Zenon
      <4>3. QED BY <3>5, <4>2, Zenon
    <3>7. Len(new) = p /\ \A m \in 1..p : new[m] = src[m]
      BY <3>1, <3>2, <3>4, <3>6
    <3>8. On(Writes(j))' = new /\ On(Reads(j))' = src
      BY <1>1, <1>2, <3>1, <3>5
    <3>9. On(Writes(i))' = new /\ On(Reads(i))' = src
      BY <1>5, <3>8
    <3>10. i.pos = p + 1 /\ i.pos - 1 = p
      BY <1>4, <3>1, <3>2
    <3>11. Begun(i)'
      BY <3>3, <3>7, <3>9, <3>10 DEF Begun
    <3>12. QED BY <1>4, <2>3, <2>5, <3>11 DEF Begun
  <2>6. QED BY <2>4, <2>5
<1>11. QED BY <1>9, <1>10 DEF WholeInv, Unharmed

(* A copy that nothing cut into is whole when it ends.                      *)
LEMMA CloseWhole ==
    ASSUME FilesTypes, WholeInv, NEW t \in Repairers, Close(t)
    PROVE  WholeInv'
<1>0. PICK j : j = job[t]
  OBVIOUS
<1>1. /\ j # Idle /\ j.pos > Len(Source(j)) /\ job' = [job EXCEPT ![t] = Idle]
      /\ UNCHANGED <<disk, version, copies, torn>>
  BY <1>0 DEF Close
<1>2. /\ t \in Open /\ Source(j) = On(Reads(j)) /\ j.pos \in 1..(Blocks + 1)
      /\ Reads(j) \in Stored /\ Writes(j) \in Stored /\ Reads(j) # Writes(j)
  BY <1>0, <1>1, OpenParts
<1>3. Open' = Open \ {t} /\ \A u \in Open' : job'[u] = job[u]
  BY <1>1 DEF FilesTypes, JobType, Open
<1>4. Stored' = Stored /\ \A x : On(x)' = On(x)
  BY <1>1 DEF Stored, On
<1>5. AllWhole'
  <2> SUFFICES ASSUME NEW x \in Stored', x \notin torn', \A u \in Open' : Writes(job'[u]) # x
               PROVE  IsWhole(On(x))'
    BY DEF AllWhole
  <2>1. IsWhole(On(x))
    <3>1. CASE x # Writes(j)
      BY <1>0, <1>1, <1>3, <1>4, <3>1 DEF WholeInv, AllWhole
    <3>2. CASE x = Writes(j)
      <4>1. Alone(t) /\ Reads(j) \notin torn /\ Begun(j)
        BY <1>0, <1>1, <1>2, <3>2 DEF WholeInv, Unharmed
      <4>2. \A u \in Open : Writes(job[u]) # Reads(j)
        BY <1>0, <1>2, <4>1 DEF Alone, CutBy
      <4>3. IsWhole(On(Reads(j)))
        BY <1>2, <4>1, <4>2 DEF WholeInv, AllWhole
      <4>4. PICK src, dst : src = On(Reads(j)) /\ dst = On(Writes(j))
        OBVIOUS
      <4>5. /\ src \in Seq(Block) /\ dst \in Seq(Block) /\ Len(src) \in Nat /\ Len(dst) \in Nat
        BY <1>2, <4>4, StoredContent, ContentSeq
      <4>6. /\ Len(dst) = j.pos - 1 /\ j.pos - 1 <= Len(src) /\ j.pos > Len(src) /\ j.pos \in Nat
            /\ \A k \in 1..(j.pos - 1) : dst[k] = src[k]
        BY <1>1, <1>2, <4>1, <4>4 DEF Begun
      <4>7. Len(dst) = Len(src) /\ \A k \in 1..Len(src) : dst[k] = src[k]
        BY <4>5, <4>6
      <4>8. dst = src
        BY <4>5, <4>7
      <4>9. QED BY <3>2, <4>3, <4>4, <4>8
    <3>3. QED BY <3>1, <3>2
  <2>2. QED BY <1>1, <1>4, <2>1 DEF IsWhole
<1>6. Unharmed'
  BY <1>1, <1>3, <1>4 DEF WholeInv, Unharmed, Alone, Begun
<1>7. QED BY <1>5, <1>6 DEF WholeInv

LEMMA ReplaceWhole ==
    ASSUME FilesTypes, WholeInv, NEW f \in Files, Replace(f)
    PROVE  WholeInv'
<1>1. /\ version' = version + 1 /\ version' \in 0..MaxVersion /\ Stored' = Stored
      /\ On(f)' = Whole(f, version') /\ \A x \in Stored : x # f => On(x)' = On(x)
  BY ReplaceWrites
<1>2. /\ job' = job /\ Open' = Open
      /\ torn' = (torn \ {f}) \cup {Writes(job[t]) : t \in {u \in Open : job[u].file = f}}
  BY DEF Replace, Open
<1>3. AllWhole'
  <2> SUFFICES ASSUME NEW x \in Stored', x \notin torn', \A u \in Open' : Writes(job'[u]) # x
               PROVE  IsWhole(On(x))'
    BY DEF AllWhole
  <2>1. CASE x = f
    BY <1>1, <2>1 DEF IsWhole
  <2>2. CASE x # f
    <3>1. PICK c : c = On(x)
      OBVIOUS
    <3>2. IsWhole(c) /\ On(x)' = c
      BY <1>1, <1>2, <2>2, <3>1 DEF WholeInv, AllWhole
    <3>3. IsWhole(c)'
      BY <1>1, <3>2, SameWhole
    <3>4. QED BY <3>2, <3>3 DEF IsWhole
  <2>3. QED BY <2>1, <2>2
<1>4. ASSUME NEW u \in Open', Writes(job'[u]) \notin torn'
      PROVE  Alone(u)' /\ Reads(job'[u]) \notin torn' /\ Begun(job[u])'
  <2>1. PICK j : j = job[u]
    OBVIOUS
  <2>2. /\ u \in Open /\ j \in Jobs /\ job'[u] = j /\ j.name \in DOMAIN copies
        /\ Reads(j) \in Stored /\ Writes(j) \in Stored /\ Reads(j) # Writes(j)
    BY <1>2, <2>1, OpenParts DEF Open
  <2>3. j.file # f /\ j.name \notin Files /\ j.kind \in {"backup", "restore"}
    BY <1>2, <1>4, <2>1, <2>2, FileAssumption DEF FileAssumption, Jobs
  <2>4. Writes(j) # f /\ Reads(j) # f
    BY <2>3 DEF Reads, Writes
  <2>5. Alone(u) /\ Reads(j) \notin torn /\ Begun(j)
    BY <1>2, <1>4, <2>1, <2>2, <2>4 DEF WholeInv, Unharmed
  <2>6. Reads(j) \notin torn'
    BY <1>2, <2>1, <2>2, <2>5 DEF Alone, CutBy
  <2>7. Alone(u)'
    BY <1>2, <2>5 DEF Alone
  <2>8. Begun(j)'
    BY <1>1, <2>2, <2>4, <2>5 DEF Begun
  <2>9. QED BY <2>2, <2>6, <2>7, <2>8 DEF Begun
<1>5. QED BY <1>3, <1>4 DEF WholeInv, Unharmed

LEMMA WholeStep == ASSUME FilesTypes, WholeInv, [FilesNext]_filesVars PROVE WholeInv'
<1>1. ASSUME NEW t \in Repairers, NEW f \in Files, BackupCall(t, f) \/ RestoreFile(t, f) PROVE WholeInv'
  BY <1>1, CallBegins, CallsWhole
<1>2. ASSUME NEW t \in Repairers, CopyBlocks(t) \/ Close(t) PROVE WholeInv'
  BY <1>2, CopyWhole, CloseWhole
<1>3. ASSUME UNCHANGED <<disk, version, copies, job, torn>> PROVE WholeInv'
  BY <1>3 DEF WholeInv, AllWhole, Unharmed, Alone, Begun, On, Stored, Open, IsWhole
<1>4. ASSUME NEW d \in Dirs, SetDirectory(d) \/ BackupInit(d) PROVE WholeInv'
  BY <1>3, <1>4 DEF SetDirectory, BackupInit
<1>5. ASSUME NEW f \in Files, Replace(f) PROVE WholeInv'
  BY <1>5, ReplaceWhole
<1>6. ASSUME Tick PROVE WholeInv'
  BY <1>3, <1>6 DEF Tick
<1>7. ASSUME Crash PROVE WholeInv'
  <2>1. /\ UNCHANGED <<disk, version, copies>> /\ Open' = {}
        /\ torn' = torn \cup {Writes(job[t]) : t \in Open}
    BY <1>7 DEF Crash, Open
  <2>2. Stored' = Stored /\ \A x : On(x)' = On(x)
    BY <2>1 DEF Stored, On
  <2>3. \A x \in Stored \ torn' : IsWhole(On(x))
    BY <2>1 DEF WholeInv, AllWhole
  <2>4. \A x \in Stored' \ torn' : IsWhole(On(x))'
    BY <2>1, <2>2, <2>3 DEF IsWhole
  <2>5. QED BY <2>1, <2>4 DEF WholeInv, AllWhole, Unharmed
<1>8. CASE UNCHANGED filesVars
  BY <1>3, <1>8 DEF filesVars
<1>9. QED BY <1>1, <1>2, <1>4, <1>5, <1>6, <1>7, <1>8, Zenon DEF FilesNext

LEMMA WholeStart == FilesInit => WholeInv
<1> SUFFICES ASSUME FilesInit PROVE WholeInv
  OBVIOUS
<1>1. Open = {} /\ Stored = Files
  BY DEF FilesInit, Open, Stored
<1>2. \A f \in Files : IsWhole(disk[f])
  BY DEF FilesInit, IsWhole
<1>3. QED BY <1>1, <1>2 DEF WholeInv, AllWhole, Unharmed, On

(* For any number of threads and files and any number of blocks: whatever    *)
(* is backed up, replaced and restored, and wherever the process ends, what   *)
(* nothing cut into is whole, and a restoration of a whole copy heals.       *)
THEOREM FilesWhole == FilesSpec => []WholeCopies
<1>1. FilesTypes /\ WholeInv => WholeCopies
  <2> SUFFICES ASSUME FilesTypes, WholeInv PROVE WholeCopies
    OBVIOUS
  <2>1. \A n \in DOMAIN copies : n \notin Files
    BY FileAssumption DEF FileAssumption, FilesTypes, CopyType
  <2>2. QED BY <2>1 DEF WholeInv, AllWhole, WholeCopies, Settled, Stored, On
<1>2. QED BY <1>1, FilesStart, FilesTypeStep, WholeStart, WholeStep, PTL DEF FilesSpec

-----------------------------------------------------------------------------
(* Whose blocks a file holds *)

OwnInv ==
    /\ \A x \in Stored : \A k \in 1..Len(On(x)) :
          On(x)[k] = Gap \/ <<FileOf(x), On(x)[k][1]>> \in Contains
    /\ \A t \in Open : <<FileOf(Writes(job[t])), FileOf(Reads(job[t]))>> \in Contains

LEMMA OwnStep == ASSUME FilesTypes, OwnInv, [FilesNext]_filesVars PROVE OwnInv'
<1>1. ASSUME NEW t \in Repairers, NEW j, Calls(t, j) PROVE OwnInv'
  <2>1. /\ Open' = Open \cup {t} /\ job'[t] = j /\ \A u \in Open : job'[u] = job[u]
    BY <1>1, OpenAfter
  <2>2. /\ Stored' = Stored \cup {Writes(j)} /\ On(Writes(j))' = <<>>
        /\ \A x \in Stored : x # Writes(j) => On(x)' = On(x)
        /\ <<FileOf(Writes(j)), FileOf(Reads(j))>> \in Contains
    BY <1>1 DEF Calls
  <2>3. \A u \in Open' : <<FileOf(Writes(job'[u])), FileOf(Reads(job'[u]))>> \in Contains
    BY <2>1, <2>2 DEF OwnInv
  <2>4. ASSUME NEW x \in Stored', NEW k \in 1..Len(On(x)')
        PROVE  On(x)'[k] = Gap \/ <<FileOf(x), On(x)'[k][1]>> \in Contains
    <3>1. CASE x = Writes(j)
      BY <2>2, <2>4, <3>1
    <3>2. CASE x # Writes(j)
      BY <2>2, <2>4, <3>2 DEF OwnInv
    <3>3. QED BY <3>1, <3>2
  <2>5. QED BY <2>3, <2>4 DEF OwnInv
<1>2. ASSUME NEW t \in Repairers, CopyBlocks(t) PROVE OwnInv'
  <2>1. PICK j : j = job[t]
    OBVIOUS
  <2>2. /\ j # Idle /\ j.pos <= Len(Source(j)) /\ Stored' = Stored
        /\ On(Writes(j))' = Put(On(Writes(j)), j.pos, Source(j)[j.pos])
        /\ \A x \in Stored : x # Writes(j) => On(x)' = On(x)
    BY <1>2, <2>1, CopyWrites DEF Copies, Stored
  <2>3. /\ t \in Open /\ Source(j) = On(Reads(j)) /\ j.pos \in 1..(Blocks + 1)
        /\ Reads(j) \in Stored /\ Writes(j) \in Stored
    BY <2>1, <2>2, OpenParts
  <2>4. PICK p, b, src, dst : p = j.pos /\ src = On(Reads(j)) /\ dst = On(Writes(j)) /\ b = src[p]
    OBVIOUS
  <2>5. /\ src \in Seq(Block) /\ Len(src) <= Blocks /\ dst \in FileContent /\ dst \in Seq(Block)
        /\ Len(src) \in Nat /\ Blocks \in Nat /\ p \in Nat \ {0} /\ p <= Len(src)
    BY <2>2, <2>3, <2>4, StoredContent, ContentSeq, FileAssumption DEF FileAssumption
  <2>6. p \in 1..Blocks /\ p \in 1..Len(src) /\ b \in Block
    BY <2>4, <2>5
  <2>7. b = Gap \/ <<FileOf(Writes(j)), b[1]>> \in Contains
    <3>1. b = Gap \/ <<FileOf(Reads(j)), b[1]>> \in Contains
      BY <2>3, <2>4, <2>6 DEF OwnInv
    <3>2. <<FileOf(Writes(j)), FileOf(Reads(j))>> \in Contains
      BY <2>1, <2>3 DEF OwnInv
    <3>3. ASSUME NEW x, NEW y, NEW z, <<x, y>> \in Contains, <<y, z>> \in Contains
          PROVE  <<x, z>> \in Contains
      BY <3>3, FileAssumption DEF FileAssumption
    <3>4. QED BY <3>1, <3>2, <3>3
  <2>8. PICK new : new = Put(dst, p, b)
    OBVIOUS
  <2>9. \A m \in 1..Len(new) : new[m] = b \/ new[m] = Gap \/ (m \in 1..Len(dst) /\ new[m] = dst[m])
    <3>1. /\ Len(Put(dst, p, b)) = IF Len(dst) < p THEN p ELSE Len(dst)
          /\ \A m \in 1..Len(Put(dst, p, b)) :
                Put(dst, p, b)[m] = IF m = p THEN b ELSE IF m <= Len(dst) THEN dst[m] ELSE Gap
      <4>1. dst \in FileContent /\ p \in 1..Blocks /\ b \in Block
        BY <2>5, <2>6
      <4>2. QED BY <4>1, PutBlock, Zenon
    <3>2. Len(dst) \in Nat /\ Len(new) \in Nat
      BY <2>5, <2>8, <3>1
    <3>3. QED BY <2>8, <3>1, <3>2
  <2>10. On(Writes(j))' = new
    BY <2>2, <2>3, <2>4, <2>8
  <2>11. ASSUME NEW x \in Stored', NEW k \in 1..Len(On(x)')
         PROVE  On(x)'[k] = Gap \/ <<FileOf(x), On(x)'[k][1]>> \in Contains
    <3>1. CASE x = Writes(j)
      BY <2>3, <2>4, <2>7, <2>9, <2>10, <2>11, <3>1 DEF OwnInv
    <3>2. CASE x # Writes(j)
      BY <2>2, <2>11, <3>2 DEF OwnInv
    <3>3. QED BY <3>1, <3>2
  <2>12. ASSUME NEW u \in Open' PROVE <<FileOf(Writes(job'[u])), FileOf(Reads(job'[u]))>> \in Contains
    <3>1. u \in Open /\ Writes(job'[u]) = Writes(job[u]) /\ Reads(job'[u]) = Reads(job[u])
      <4>1. job' = [job EXCEPT ![t].pos = j.pos + 1] /\ u \in Repairers
        BY <1>2, <2>1, <2>12, CopyWrites DEF Copies, Open
      <4>2. CASE u # t
        BY <2>12, <4>1, <4>2 DEF FilesTypes, JobType, Open
      <4>3. CASE u = t
        <5>1. PICK q : q = j.pos + 1
          OBVIOUS
        <5>2. job'[t] = [j EXCEPT !.pos = q]
          BY <2>1, <4>1, <5>1 DEF FilesTypes, JobType
        <5>3. j \in Jobs
          BY <2>1, <2>2, OpenParts
        <5>4. job'[t].kind = j.kind /\ job'[t].file = j.file /\ job'[t].name = j.name
          BY <5>2, <5>3 DEF Jobs
        <5>5. QED BY <2>1, <2>3, <4>3, <5>4 DEF Writes, Reads
      <4>4. QED BY <4>2, <4>3
    <3>2. QED BY <3>1 DEF OwnInv
  <2>13. QED BY <2>11, <2>12 DEF OwnInv
<1>3. ASSUME UNCHANGED <<disk, copies>>, \A u \in Open' : u \in Open /\ job'[u] = job[u] PROVE OwnInv'
  <2>1. Stored' = Stored /\ \A x : On(x)' = On(x)
    BY <1>3 DEF Stored, On
  <2>2. QED BY <1>3, <2>1 DEF OwnInv
<1>4. ASSUME NEW t \in Repairers, Close(t) PROVE OwnInv'
  BY <1>3, <1>4 DEF Close, FilesTypes, JobType, Open
<1>5. ASSUME NEW d \in Dirs, SetDirectory(d) \/ BackupInit(d) PROVE OwnInv'
  BY <1>3, <1>5 DEF SetDirectory, BackupInit, Open
<1>6. ASSUME NEW f \in Files, Replace(f) PROVE OwnInv'
  <2>1. PICK v : v = version'
    OBVIOUS
  <2>2. /\ v \in 0..MaxVersion /\ On(f)' = Whole(f, v) /\ Stored' = Stored
        /\ \A x \in Stored : x # f => On(x)' = On(x)
    BY <1>6, <2>1, ReplaceWrites
  <2>3. /\ \A k \in 1..Len(Whole(f, v)) : Whole(f, v)[k] = <<f, v>>
        /\ <<FileOf(f), f>> \in Contains
    BY <2>2, WholeContent, FileAssumption DEF FileAssumption, FileOf
  <2>4. ASSUME NEW x \in Stored', NEW k \in 1..Len(On(x)')
        PROVE  On(x)'[k] = Gap \/ <<FileOf(x), On(x)'[k][1]>> \in Contains
    <3>1. CASE x = f
      BY <2>2, <2>3, <2>4, <3>1
    <3>2. CASE x # f
      BY <2>2, <2>4, <3>2 DEF OwnInv
    <3>3. QED BY <3>1, <3>2
  <2>5. job' = job /\ Open' = Open
    BY <1>6 DEF Replace, Open
  <2>6. QED BY <2>4, <2>5 DEF OwnInv
<1>7. ASSUME Tick PROVE OwnInv'
  BY <1>3, <1>7 DEF Tick, Open
<1>8. ASSUME Crash PROVE OwnInv'
  BY <1>3, <1>8 DEF Crash, Open
<1>9. CASE UNCHANGED filesVars
  BY <1>3, <1>9 DEF filesVars, Open
<1>10. ASSUME NEW t \in Repairers, NEW f \in Files, BackupCall(t, f) \/ RestoreFile(t, f) PROVE OwnInv'
  BY <1>1, <1>10, CallBegins
<1>11. QED BY <1>2, <1>4, <1>5, <1>6, <1>7, <1>8, <1>9, <1>10, Zenon DEF FilesNext

LEMMA OwnStart == FilesInit => OwnInv
<1> SUFFICES ASSUME FilesInit PROVE OwnInv
  OBVIOUS
<1>1. Open = {} /\ Stored = Files
  BY DEF FilesInit, Open, Stored
<1>2. 0 \in 0..MaxVersion
  BY FileAssumption DEF FileAssumption
<1>3. ASSUME NEW f \in Files, NEW k \in 1..Len(On(f)) PROVE <<FileOf(f), On(f)[k][1]>> \in Contains
  <2>1. On(f) = Whole(f, 0) /\ FileOf(f) = f /\ <<f, f>> \in Contains
    BY FileAssumption DEF FileAssumption, FilesInit, On, FileOf
  <2>2. On(f)[k] = <<f, 0>>
    BY <1>2, <1>3, <2>1, WholeContent
  <2>3. QED BY <2>1, <2>2
<1>4. QED BY <1>1, <1>3 DEF OwnInv

(* When no file's name contains another's, a file is made of blocks of itself *)
(* only, however torn, and whoever copied what at once: the search for a part  *)
(* of the name is the only way that another file's content takes.            *)
THEOREM FilesOwnBlocks ==
    ASSUME Contains = {<<f, f>> : f \in Files}
    PROVE  FilesSpec => []OwnFile
<1>1. FilesTypes /\ OwnInv => OwnFile
  <2> SUFFICES ASSUME FilesTypes, OwnInv, NEW f \in Files, NEW i \in DOMAIN disk[f]
               PROVE  disk[f][i] = Gap \/ disk[f][i][1] = f
    BY DEF OwnFile
  <2>1. On(f) = disk[f] /\ FileOf(f) = f /\ f \in Stored
    BY DEF On, FileOf, Stored
  <2>2. disk[f] \in Seq(Block)
    BY <2>1, StoredContent, ContentSeq
  <2>3. i \in 1..Len(disk[f])
    BY <2>2
  <2>4. disk[f][i] = Gap \/ <<f, disk[f][i][1]>> \in Contains
    BY <2>1, <2>3 DEF OwnInv
  <2>5. QED BY <2>4
<1>2. QED BY <1>1, FilesStart, FilesTypeStep, OwnStart, OwnStep, PTL DEF FilesSpec

-----------------------------------------------------------------------------
(* Finished backups *)

StaysPut == \A n \in DOMAIN copies :
    n.at # tick /\ (\A t \in Open : Writes(job[t]) # n)
        => n \in DOMAIN copies' /\ copies'[n] = copies[n]

(* A finished backup of an earlier tick stays as it is: no call, whoever     *)
(* makes it, removes it or writes over it, and neither does a crash.         *)
THEOREM FilesBackupsStay == FilesSpec => BackupsStay
<1>1. ASSUME FilesTypes, [FilesNext]_filesVars PROVE StaysPut
  <2>1. ASSUME NEW t \in Repairers, NEW f \in Files, BackupCall(t, f) PROVE StaysPut
    <3>1. PICK m : m = [file |-> f, dir |-> put, at |-> tick]
      OBVIOUS
    <3>2. copies' = [n \in DOMAIN copies \cup {m} |-> IF n = m THEN <<>> ELSE copies[n]]
      BY <2>1, <3>1 DEF BackupCall
    <3>3. m.at = tick
      BY <3>1
    <3>4. QED BY <3>2, <3>3 DEF StaysPut
  <2>2. ASSUME NEW t \in Repairers, CopyBlocks(t) PROVE StaysPut
    <3>1. PICK j : j = job[t]
      OBVIOUS
    <3>2. /\ \A x \in Stored : x # Writes(j) => On(x)' = On(x)
          /\ DOMAIN copies' = DOMAIN copies /\ t \in Open
      <4>1. Copies(t, j)
        BY <1>1, <2>2, <3>1, CopyWrites
      <4>2. QED BY <1>1, <3>1, <4>1, OpenParts DEF Copies
    <3>3. \A n \in DOMAIN copies : n \in Stored /\ n \notin Files
      BY <1>1, FileAssumption DEF FileAssumption, FilesTypes, CopyType, Stored
    <3>4. \A n \in DOMAIN copies : n # Writes(j) => copies'[n] = copies[n]
      BY <3>2, <3>3 DEF On
    <3>5. QED BY <3>1, <3>2, <3>4 DEF StaysPut
  <2>3. ASSUME UNCHANGED copies PROVE StaysPut
    BY <2>3 DEF StaysPut
  <2>4. CASE UNCHANGED filesVars
    BY <2>3, <2>4 DEF filesVars
  <2>5. CASE FilesNext
    <3>1. ASSUME NEW t \in Repairers, NEW f \in Files, RestoreFile(t, f) PROVE StaysPut
      BY <2>3, <3>1 DEF RestoreFile
    <3>2. ASSUME NEW t \in Repairers, Close(t) PROVE StaysPut
      BY <2>3, <3>2 DEF Close
    <3>3. ASSUME NEW d \in Dirs, SetDirectory(d) \/ BackupInit(d) PROVE StaysPut
      BY <2>3, <3>3 DEF SetDirectory, BackupInit
    <3>4. ASSUME NEW f \in Files, Replace(f) PROVE StaysPut
      BY <2>3, <3>4 DEF Replace
    <3>5. ASSUME Tick \/ Crash PROVE StaysPut
      BY <2>3, <3>5 DEF Tick, Crash
    <3>6. QED BY <2>1, <2>2, <2>5, <3>1, <3>2, <3>3, <3>4, <3>5, Zenon DEF FilesNext
  <2>6. QED BY <1>1, <2>4, <2>5
<1>2. FilesTypes /\ [FilesNext]_filesVars => [StaysPut]_filesVars
  BY <1>1
<1>3. QED BY <1>2, FilesStart, FilesTypeStep, PTL DEF FilesSpec, BackupsStay, StaysPut
=============================================================================
