------------------------- MODULE MemoryMonitorProofs -------------------------
(***************************************************************************)
(* For any clients, regions, backups and tampering: the variables keep their *)
(* types, a scan never stands on a freed region, and the trusted hashes stay  *)
(* those of the program's own bytes.                                         *)
(***************************************************************************)
EXTENDS MemoryMonitor, SequenceTheorems, TLAPS

(* A thread that goes on with a region or a backup holds one.               *)
WithRegion == {"unlink", "free", "fix", "look_up", "copy", "bless"}
WithBackup == {"copy", "bless"}
Pointed == \A t \in Threads : /\ pc[t] \in WithRegion => ptr[t] # 0
                              /\ pc[t] \in WithBackup => bak[t] # 0
TypeInv == MonitorTypeOK /\ Pointed

-----------------------------------------------------------------------------
(* The lists *)

NoRepeats(s) == \A i, j \in DOMAIN s : s[i] = s[j] => i = j

LEMMA Wider ==
  ASSUME NEW S, NEW T, S \subseteq T, NEW s \in Seq(S)
  PROVE  s \in Seq(T)
BY LenProperties, ElementOfSeq, SeqDef

LEMMA Indices ==
  ASSUME NEW S, NEW s \in Seq(S)
  PROVE  DOMAIN s \subseteq Nat \ {0} /\ Len(s) \in Nat
BY LenProperties

LEMMA InFront ==
  ASSUME NEW S, NEW s \in Seq(S), NEW e \in S
  PROVE  /\ <<e>> \o s \in Seq(S)
         /\ Listed(<<e>> \o s) = {e} \cup Listed(s)
         /\ NoRepeats(s) /\ e \notin Listed(s) => NoRepeats(<<e>> \o s)
<1> DEFINE u == <<e>> \o s
<1>1. /\ u \in Seq(S) /\ Len(u) = Len(s) + 1 /\ Len(s) \in Nat
      /\ DOMAIN u = 1..(Len(s) + 1) /\ DOMAIN s = 1..Len(s)
  <2>1. <<e>> \in Seq(S) /\ Len(<<e>>) = 1
    OBVIOUS
  <2>2. QED BY <2>1, ConcatProperties, LenProperties
<1>2. u[1] = e /\ \A i \in 2..(Len(s) + 1) : u[i] = s[i - 1]
  BY <1>1, ConcatProperties
<1>3. \A i \in DOMAIN u : i = 1 \/ (i - 1 \in DOMAIN s /\ u[i] = s[i - 1])
  BY <1>1, <1>2
<1>4. \A i \in DOMAIN s : i + 1 \in DOMAIN u /\ u[i + 1] = s[i]
  BY <1>1, <1>2
<1>5. Listed(u) = {e} \cup Listed(s)
  <2> HIDE DEF u
  <2>1. Listed(u) \subseteq {e} \cup Listed(s)
    BY <1>2, <1>3 DEF Listed
  <2>2. 1 \in DOMAIN u
    BY <1>1
  <2>3. {e} \cup Listed(s) \subseteq Listed(u)
    BY <1>2, <1>4, <2>2 DEF Listed
  <2>4. QED BY <2>1, <2>3
<1>6. NoRepeats(s) /\ e \notin Listed(s) => NoRepeats(u)
  <2> SUFFICES ASSUME NoRepeats(s), e \notin Listed(s),
                      NEW i \in DOMAIN u, NEW j \in DOMAIN u, u[i] = u[j]
               PROVE  i = j
    BY DEF NoRepeats
  <2>1. \A k \in DOMAIN u : k # 1 => k - 1 \in DOMAIN s /\ u[k] = s[k - 1] /\ u[k] # e
    BY <1>3 DEF Listed
  <2>2. CASE i = 1 \/ j = 1
    BY <2>1, <2>2, <1>2
  <2>3. CASE i # 1 /\ j # 1
    BY <2>1, <2>3, <1>1 DEF NoRepeats
  <2>4. QED BY <2>2, <2>3
<1>7. QED BY <1>1, <1>5, <1>6

LEMMA Extended ==
  ASSUME NEW S, NEW s \in Seq(S), NEW e, NEW u, u = Append(s, e)
  PROVE  /\ DOMAIN u = DOMAIN s \cup {Len(s) + 1}
         /\ \A i \in DOMAIN s : u[i] = s[i]
         /\ u[Len(s) + 1] = e
BY LenProperties, AppendProperties

LEMMA AfterUnlink ==
  ASSUME NEW S, NEW s \in Seq(S), NEW n, NEW u \in Unlinked(s, n)
  PROVE  /\ u \in Seq(S) /\ Listed(u) \subseteq Listed(s)
         /\ NoRepeats(s) => NoRepeats(u) /\ n \notin Listed(u)
<1>1. CASE n \notin Listed(s)
  BY <1>1 DEF Unlinked
<1>2. CASE n \in Listed(s)
  <2>1. PICK i \in DOMAIN s :
             s[i] = n /\ u = [j \in 1..(Len(s) - 1) |-> s[IF j < i THEN j ELSE j + 1]]
    BY <1>2 DEF Unlinked
  <2>2. Len(s) \in Nat /\ DOMAIN s = 1..Len(s)
    BY LenProperties
  <2> DEFINE from(j) == IF j < i THEN j ELSE j + 1
  <2>3. \A j \in 1..(Len(s) - 1) : from(j) \in DOMAIN s /\ from(j) # i /\ u[j] = s[from(j)]
    BY <2>1, <2>2
  <2>4. DOMAIN u = 1..(Len(s) - 1) /\ Len(s) - 1 \in Nat
    BY <2>1, <2>2
  <2>5. \A j \in 1..(Len(s) - 1) : u[j] \in S
    BY <2>3, ElementOfSeq, <2>2
  <2>6. u \in Seq(S)
    <3>1. u \in [1..(Len(s) - 1) -> S]
      BY <2>1, <2>4, <2>5
    <3>2. QED BY <3>1, <2>4, SeqDef
  <2>7. Listed(u) \subseteq Listed(s)
    BY <2>3, <2>4 DEF Listed
  <2>8. ASSUME NoRepeats(s) PROVE NoRepeats(u) /\ n \notin Listed(u)
    <3>1. n \notin Listed(u)
      BY <2>8, <2>1, <2>3, <2>4 DEF Listed, NoRepeats
    <3>2. \A j, k \in DOMAIN u : from(j) = from(k) => j = k
      BY <2>2, <2>4
    <3>3. NoRepeats(u)
      BY <2>8, <3>2, <2>3, <2>4 DEF NoRepeats
    <3>4. QED BY <3>1, <3>3
  <2>9. QED BY <2>6, <2>7, <2>8
<1>3. QED BY <1>1, <1>2

LEMMA ContentType ==
  ASSUME NEW m \in [Addrs -> Values], NEW x \in Extents
  PROVE  Content(m, x) \in [Cells(x) -> Values] /\ Content(m, x) \in Datas
<1>1. Cells(x) \subseteq Addrs
  BY MonitorAssumption DEF Cells
<1>2. Content(m, x) \in [Cells(x) -> Values]
  BY <1>1 DEF Content
<1>3. QED BY <1>2 DEF Datas

-----------------------------------------------------------------------------
(* Types *)

LEMMA TypeInit == MonitorInit => TypeInv
<1> SUFFICES ASSUME MonitorInit PROVE TypeInv
  OBVIOUS
<1>1. <<>> \in Seq([base : Int, size : Nat, good : Datas]) /\ <<>> \in Seq([base : Int, data : Datas])
  OBVIOUS
<1>2. DOMAIN region = {} /\ DOMAIN backup = {}
  BY DEF MonitorInit
<1>3. list \in Seq(DOMAIN region) /\ saved \in Seq(DOMAIN backup)
      /\ found \in [Threads -> Seq(DOMAIN region)]
  BY DEF MonitorInit
<1>4. pc \in [Threads -> {"none", "queued", "loop", "lock", "scan", "notify", "idle", "unlink",
                           "free", "next", "fix", "look_up", "copy", "bless"}]
  BY DEF MonitorInit
<1>5. MonitorTypeOK
  BY <1>1, <1>2, <1>3, <1>4, MonitorAssumption DEF MonitorInit, MonitorTypeOK
<1>6. Pointed
  BY DEF MonitorInit, Pointed, WithRegion, WithBackup
<1>7. QED BY <1>5, <1>6 DEF TypeInv

LEMMA Stored ==
  ASSUME TypeInv
  PROVE  /\ \A r \in DOMAIN region : region[r] \in [base : Int, size : Nat, good : Datas]
         /\ \A b \in DOMAIN backup : /\ backup[b] \in [base : Int, data : Datas]
                                    /\ backup[b].data \in Datas
<1>1. \A r \in DOMAIN region : region[r] \in [base : Int, size : Nat, good : Datas]
  <2> DEFINE Rec == [base : Int, size : Nat, good : Datas]
  <2>1. region \in Seq(Rec)
    BY DEF TypeInv, MonitorTypeOK
  <2> HIDE DEF Rec
  <2>2. \A r \in DOMAIN region : region[r] \in Rec
    BY <2>1, ElementOfSeq, LenProperties
  <2>3. QED BY <2>2 DEF Rec
<1>2. \A b \in DOMAIN backup : backup[b] \in [base : Int, data : Datas]
  <2> DEFINE Rec == [base : Int, data : Datas]
  <2>1. backup \in Seq(Rec)
    BY DEF TypeInv, MonitorTypeOK
  <2> HIDE DEF Rec
  <2>2. \A b \in DOMAIN backup : backup[b] \in Rec
    BY <2>1, ElementOfSeq, LenProperties
  <2>3. QED BY <2>2 DEF Rec
<1>3. QED BY <1>1, <1>2

(* The steps that add a region or a backup: everything that pointed into    *)
(* the sequence still does.                                                 *)
LEMMA AddRegionTypes ==
  ASSUME TypeInv, NEW c \in Clients, NEW x \in Extents, AddRegion(c, x)
  PROVE  TypeInv'
<1> DEFINE r == [base |-> x.base, size |-> x.size, good |-> Content(mem, x)]
           Rec == [base : Int, size : Nat, good : Datas]
<1>1. r \in Rec
  BY MonitorAssumption, ContentType DEF TypeInv, MonitorTypeOK
<1>2. /\ region' \in Seq(Rec) /\ Len(region') = Len(region) + 1 /\ Len(region) \in Nat
      /\ DOMAIN region = 1..Len(region) /\ DOMAIN region' = 1..Len(region')
  BY <1>1, AppendProperties, LenProperties DEF TypeInv, MonitorTypeOK, AddRegion
<1>3. DOMAIN region \subseteq DOMAIN region' /\ Len(region') \in DOMAIN region'
  BY <1>2
<1>4. list \in Seq(DOMAIN region') /\ \A t \in Threads : found[t] \in Seq(DOMAIN region')
  BY <1>3, Wider DEF TypeInv, MonitorTypeOK
<1>5. list' \in Seq(DOMAIN region')
  BY <1>3, <1>4, InFront DEF AddRegion
<1>6. found' \in [Threads -> Seq(DOMAIN region')]
  BY <1>4 DEF AddRegion, local, TypeInv, MonitorTypeOK
<1>7. Pointed' /\ gone' \subseteq DOMAIN region'
  BY <1>3 DEF AddRegion, local, TypeInv, MonitorTypeOK, Pointed
<1>8. QED
  BY <1>2, <1>3, <1>5, <1>6, <1>7 DEF TypeInv, MonitorTypeOK, AddRegion, local, backups, control

LEMMA BackupTypes ==
  ASSUME TypeInv, NEW c \in Clients, NEW x \in Extents, Backup(c, x)
  PROVE  TypeInv'
<1> DEFINE b == [base |-> x.base, data |-> Content(mem, x)]
           Rec == [base : Int, data : Datas]
<1>1. b \in Rec
  BY MonitorAssumption, ContentType DEF TypeInv, MonitorTypeOK
<1>2. /\ backup' \in Seq(Rec) /\ Len(backup') = Len(backup) + 1 /\ Len(backup) \in Nat
      /\ DOMAIN backup = 1..Len(backup) /\ DOMAIN backup' = 1..Len(backup')
  BY <1>1, AppendProperties, LenProperties DEF TypeInv, MonitorTypeOK, Backup
<1>3. DOMAIN backup \subseteq DOMAIN backup' /\ Len(backup') \in DOMAIN backup'
  BY <1>2
<1>4. saved' \in Seq(DOMAIN backup')
  BY <1>3, Wider, InFront DEF TypeInv, MonitorTypeOK, Backup
<1>5. Pointed' /\ bgone' \subseteq DOMAIN backup'
  BY <1>3 DEF Backup, local, TypeInv, MonitorTypeOK, Pointed
<1>6. QED
  BY <1>2, <1>3, <1>4, <1>5 DEF TypeInv, MonitorTypeOK, Backup, local, regions, control

LEMMA BeginScanTypes ==
  ASSUME TypeInv, NEW t \in Threads, BeginScan(t)
  PROVE  TypeInv'
<1>1. First \in DOMAIN region \cup {0}
  <2>1. CASE list # <<>>
    BY <2>1, EmptySeq, ElementOfSeq, LenProperties DEF First, TypeInv, MonitorTypeOK
  <2>2. QED BY <2>1 DEF First
<1>2. MonitorTypeOK'
  BY <1>1 DEF BeginScan, MoveTo, TypeInv, MonitorTypeOK, regions, backups, control
<1>3. Pointed'
  BY DEF BeginScan, MoveTo, TypeInv, MonitorTypeOK, Pointed, WithRegion, WithBackup
<1>4. QED BY <1>2, <1>3 DEF TypeInv

(* Everything else leaves both sequences as long as they are.               *)
LEMMA ClientTypes ==
  ASSUME TypeInv, NEW c \in Clients, Client(c)
  PROVE  TypeInv'
<1> USE DEF TypeInv, At, MoveTo
<1> c \in Threads
  BY DEF Threads
<1>1. CASE \E x \in Extents : AddRegion(c, x) \/ Backup(c, x)
  BY <1>1, AddRegionTypes, BackupTypes
<1>2. CASE \E r \in Listed(list) : RemoveCall(c, r) \/ RestoreCall(c, r) \/ FixCall(c, r)
  <2>1. PICK r \in DOMAIN region : \E use \in {"unlink", "look_up", "fix"} : FindRegion(c, r, use)
    BY <1>2, ElementOfSeq, LenProperties DEF Listed, MonitorTypeOK, RemoveCall, RestoreCall, FixCall
  <2>2. r # 0
    BY LenProperties DEF MonitorTypeOK
  <2>3. PICK use \in {"unlink", "look_up", "fix"} : FindRegion(c, r, use)
    BY <2>1
  <2>4. MonitorTypeOK'
    BY <2>3 DEF FindRegion, MonitorTypeOK, regions, backups, control
  <2>5. Pointed'
    BY <2>2, <2>3 DEF FindRegion, MonitorTypeOK, Pointed, regions, backups, control, WithRegion, WithBackup
  <2>6. QED BY <2>4, <2>5
<1>3. CASE Unlink(c)
  <2>1. list' \in Seq(DOMAIN region)
    BY <1>3, AfterUnlink DEF Unlink, MonitorTypeOK
  <2>2. QED
    BY <1>3, <2>1 DEF Unlink, MonitorTypeOK, Pointed, backups, control, local, WithRegion, WithBackup
<1>4. CASE FreeRegion(c)
  <2>1. ptr[c] \in DOMAIN region
    BY <1>4 DEF FreeRegion, MonitorTypeOK, Pointed, WithRegion
  <2>2. gone' \subseteq DOMAIN region
    BY <1>4, <2>1 DEF FreeRegion, MonitorTypeOK
  <2>3. MonitorTypeOK'
    BY <1>4, <2>2 DEF FreeRegion, Touch, MonitorTypeOK, backups, control
  <2>4. Pointed'
    BY <1>4 DEF FreeRegion, MonitorTypeOK, Pointed, WithRegion, WithBackup
  <2>5. QED BY <2>3, <2>4
<1>5. CASE \E b \in Listed(saved) : FreeBackup(c, b)
  <2>1. PICK b \in DOMAIN backup : FreeBackup(c, b)
    BY <1>5, ElementOfSeq, LenProperties DEF Listed, MonitorTypeOK
  <2>2. saved' \in Seq(DOMAIN backup)
    BY <2>1, AfterUnlink DEF FreeBackup, MonitorTypeOK
  <2>3. QED
    BY <2>1, <2>2 DEF FreeBackup, MonitorTypeOK, Pointed, regions, control, local
<1>6. CASE FixAllCall(c)
  BY <1>6, BeginScanTypes DEF FixAllCall
<1>7. CASE FixNext(c)
  <2>1. CASE found[c] = <<>>
    BY <1>7, <2>1 DEF FixNext, MonitorTypeOK, Pointed, regions, backups, control, WithRegion, WithBackup
  <2>2. CASE found[c] # <<>>
    <3>1. Head(found[c]) \in DOMAIN region /\ Tail(found[c]) \in Seq(DOMAIN region)
      BY <2>2, HeadTailProperties DEF MonitorTypeOK
    <3>2. Head(found[c]) # 0
      <4>1. DOMAIN region \subseteq Nat \ {0}
        BY Indices DEF MonitorTypeOK
      <4>2. QED BY <3>1, <4>1
    <3>3. MonitorTypeOK'
      BY <1>7, <2>2, <3>1 DEF FixNext, MonitorTypeOK, regions, backups, control
    <3>4. Pointed'
      BY <1>7, <2>2, <3>2 DEF FixNext, MonitorTypeOK, Pointed, WithRegion, WithBackup
    <3>5. QED BY <3>3, <3>4
  <2>3. QED BY <2>1, <2>2
<1>8. CASE Fix(c)
  <2>1. MonitorTypeOK'
    <3>1. CASE Done(c)
      BY <1>8, <3>1 DEF Fix, Done, Touch, MonitorTypeOK, regions, backups, control
    <3>2. CASE MoveTo(c, "look_up") /\ UNCHANGED <<ptr, bak>>
      BY <1>8, <3>2 DEF Fix, Touch, MonitorTypeOK, regions, backups, control
    <3>3. QED BY <1>8, <3>1, <3>2 DEF Fix
  <2>2. Pointed'
    BY <1>8 DEF Fix, Done, MonitorTypeOK, Pointed, WithRegion, WithBackup
  <2>3. QED BY <2>1, <2>2
<1>9. CASE LookUp(c)
  <2>1. CASE Done(c)
    <3>1. MonitorTypeOK'
      BY <1>9, <2>1 DEF LookUp, Done, Touch, MonitorTypeOK, regions, backups, control
    <3>2. Pointed'
      BY <1>9, <2>1 DEF LookUp, Done, MonitorTypeOK, Pointed, WithRegion, WithBackup
    <3>3. QED BY <3>1, <3>2
  <2>2. CASE ~Done(c)
    <3>1. PICK i \in DOMAIN saved :
               MoveTo(c, "copy") /\ bak' = [bak EXCEPT ![c] = saved[i]] /\ UNCHANGED ptr
      BY <1>9, <2>2 DEF LookUp
    <3>2. saved[i] \in DOMAIN backup /\ saved[i] # 0
      BY ElementOfSeq, LenProperties DEF MonitorTypeOK
    <3>3. MonitorTypeOK'
      BY <1>9, <3>1, <3>2 DEF LookUp, Touch, MonitorTypeOK, regions, backups, control
    <3>4. Pointed'
      BY <1>9, <3>1, <3>2 DEF LookUp, MonitorTypeOK, Pointed, WithRegion, WithBackup
    <3>5. QED BY <3>3, <3>4
  <2>3. QED BY <2>1, <2>2
<1>10. CASE Copy(c)
  <2>1. bak[c] \in DOMAIN backup
    BY <1>10 DEF Copy, MonitorTypeOK, Pointed, WithBackup
  <2>2. backup[bak[c]].data \in Datas
    BY <2>1, Stored
  <2>3. mem' \in [Addrs -> Values]
    BY <1>10, <2>2 DEF Copy, Datas, MonitorTypeOK
  <2>4. MonitorTypeOK'
    BY <1>10, <2>3 DEF Copy, TouchBoth, MonitorTypeOK, regions, backups, control, local
  <2>5. Pointed'
    BY <1>10 DEF Copy, MonitorTypeOK, Pointed, local, WithRegion, WithBackup
  <2>6. QED BY <2>4, <2>5
<1>11. CASE Bless(c)
  <2> DEFINE Rec == [base : Int, size : Nat, good : Datas]
  <2>1. bak[c] \in DOMAIN backup /\ ptr[c] \in DOMAIN region
    BY <1>11 DEF Bless, MonitorTypeOK, Pointed, WithBackup, WithRegion
  <2>2. backup[bak[c]].data \in Datas
    BY <2>1, Stored
  <2>3. region[ptr[c]] \in Rec
    BY <2>1, Stored
  <2>4. region' \in Seq(Rec) /\ DOMAIN region' = DOMAIN region
    <3> DEFINE new == [region[ptr[c]] EXCEPT !.good = backup[bak[c]].data]
    <3>1. new \in Rec
      BY <2>2, <2>3
    <3>2. region' = [region EXCEPT ![ptr[c]] = new]
      BY <1>11 DEF Bless
    <3>3. ptr[c] \in 1..Len(region) /\ region \in Seq(Rec)
      BY <2>1, LenProperties DEF MonitorTypeOK
    <3> HIDE DEF new, Rec
    <3>4. QED BY <3>1, <3>2, <3>3, ExceptSeq, LenProperties
  <2>5. MonitorTypeOK'
    BY <1>11, <2>4 DEF Bless, Done, TouchBoth, MonitorTypeOK, backups, control
  <2>6. Pointed'
    BY <1>11 DEF Bless, Done, MonitorTypeOK, Pointed, WithRegion, WithBackup
  <2>7. QED BY <2>5, <2>6
<1>12. QED
  BY <1>1, <1>2, <1>3, <1>4, <1>5, <1>6, <1>7, <1>8, <1>9, <1>10, <1>11 DEF Client

LEMMA ScanTypes ==
  ASSUME TypeInv, Scan
  PROVE  TypeInv'
<1> USE DEF TypeInv, At, MoveTo
<1>1. PICK t \in Threads : ScanOne(t) \/ EndScan(t)
  BY DEF Scan
<1>2. CASE ScanOne(t)
  <2>1. cursor[t] \in DOMAIN region
    BY <1>2 DEF ScanOne, Scanning, MonitorTypeOK
  <2>2. Append(found[t], cursor[t]) \in Seq(DOMAIN region)
    BY <2>1, AppendProperties DEF MonitorTypeOK
  <2>3. PICK n \in Listed(list) \cup {0} : cursor' = [cursor EXCEPT ![t] = n]
    BY <1>2 DEF ScanOne
  <2>4. n \in DOMAIN region \cup {0}
    BY ElementOfSeq, LenProperties DEF Listed, MonitorTypeOK
  <2>5. found' \in [Threads -> Seq(DOMAIN region)]
    <3>1. found' = [found EXCEPT ![t] = Append(found[t], cursor[t])] \/ found' = [found EXCEPT ![t] = found[t]]
      BY <1>2 DEF ScanOne
    <3>2. QED BY <2>2, <3>1 DEF MonitorTypeOK
  <2>6. MonitorTypeOK'
    BY <1>2, <2>3, <2>4, <2>5 DEF ScanOne, MonitorTypeOK, regions, backups, control
  <2>7. QED BY <1>2, <2>6 DEF ScanOne, Pointed
<1>3. CASE EndScan(t)
  <2>1. MonitorTypeOK'
    BY <1>3 DEF EndScan, MonitorTypeOK, regions, backups, control
  <2>2. Pointed'
    BY <1>3 DEF EndScan, MonitorTypeOK, Pointed, WithRegion, WithBackup
  <2>3. QED BY <2>1, <2>2
<1>4. QED BY <1>1, <1>2, <1>3

LEMMA AuditTypes ==
  ASSUME TypeInv, Audits
  PROVE  TypeInv'
<1> USE DEF TypeInv, At, MoveTo
<1> Audit \in Threads
  BY DEF Threads
<1>1. CASE TakeTask \/ AuditCheck \/ AuditSleep
  <2>1. MonitorTypeOK'
    BY <1>1 DEF TakeTask, AuditCheck, AuditSleep, MonitorTypeOK, regions, backups, control, local
  <2>2. Pointed'
    BY <1>1 DEF TakeTask, AuditCheck, AuditSleep, MonitorTypeOK, Pointed, local, WithRegion, WithBackup
  <2>3. QED BY <2>1, <2>2
<1>2. CASE AuditScan
  BY <1>2, BeginScanTypes DEF AuditScan
<1>3. CASE Notify
  <2>1. Tail(found[Audit]) \in Seq(DOMAIN region)
    BY <1>3, HeadTailProperties DEF Notify, MonitorTypeOK
  <2>2. MonitorTypeOK'
    <3>1. found' \in [Threads -> Seq(DOMAIN region)]
      BY <1>3, <2>1 DEF Notify, MonitorTypeOK
    <3>2. QED BY <1>3, <3>1 DEF Notify, MonitorTypeOK, regions, backups, control
  <2>3. Pointed'
    BY <1>3 DEF Notify, Pointed
  <2>4. QED BY <2>2, <2>3
<1>4. QED BY <1>1, <1>2, <1>3 DEF Audits

LEMMA ControlTypes ==
  ASSUME TypeInv, Control
  PROVE  TypeInv'
<1> USE DEF TypeInv, MoveTo
<1> Audit \in Threads
  BY DEF Threads
<1>1. CASE Start
  <2>1. MonitorTypeOK'
    BY <1>1 DEF Start, MonitorTypeOK, regions, backups, local
  <2>2. Pointed'
    BY <1>1 DEF Start, MonitorTypeOK, Pointed, local, WithRegion, WithBackup
  <2>3. QED BY <2>1, <2>2
<1>2. CASE StopCall \/ ShutdownCall
  <2>1. MonitorTypeOK'
    BY <1>2 DEF StopCall, ShutdownCall, Stop, MonitorTypeOK, regions, backups, local
  <2>2. QED BY <1>2, <2>1 DEF StopCall, ShutdownCall, Stop, Pointed, local
<1>3. CASE Join
  <2>1. MonitorTypeOK'
    BY <1>3 DEF Join, MonitorTypeOK, regions, backups, local
  <2>2. Pointed'
    BY <1>3 DEF Join, MonitorTypeOK, Pointed, local, WithRegion, WithBackup
  <2>3. QED BY <2>1, <2>2
<1>4. CASE FreeRegions
  <2>1. Listed(list) \subseteq DOMAIN region
    BY ElementOfSeq, LenProperties DEF Listed, MonitorTypeOK
  <2>2. MonitorTypeOK'
    BY <1>4, <2>1 DEF FreeRegions, MonitorTypeOK, backups, local
  <2>3. QED BY <1>4, <2>2 DEF FreeRegions, Pointed, local
<1>5. CASE ShutdownRepair
  <2>1. Listed(saved) \subseteq DOMAIN backup
    BY ElementOfSeq, LenProperties DEF Listed, MonitorTypeOK
  <2>2. MonitorTypeOK'
    BY <1>5, <2>1 DEF ShutdownRepair, MonitorTypeOK, regions, control, local
  <2>3. QED BY <1>5, <2>2 DEF ShutdownRepair, Pointed, local
<1>6. QED BY <1>1, <1>2, <1>3, <1>4, <1>5 DEF Control

LEMMA TypeStep == TypeInv /\ [MonitorNext]_monitorVars => TypeInv'
<1> SUFFICES ASSUME TypeInv, [MonitorNext]_monitorVars PROVE TypeInv'
  OBVIOUS
<1>1. CASE \E a \in Addrs, v \in Values : Tamper(a, v)
  BY <1>1 DEF Tamper, TypeInv, MonitorTypeOK, Pointed, regions, backups, control, local
<1>2. CASE UNCHANGED monitorVars
  BY <1>2 DEF monitorVars, TypeInv, MonitorTypeOK, Pointed, regions, backups, control, local
<1>3. QED
  BY <1>1, <1>2, ClientTypes, ScanTypes, AuditTypes, ControlTypes DEF MonitorNext

(* Every variable keeps its type.                                           *)
THEOREM MonitorTypeCorrect == MonitorSpec => []MonitorTypeOK
<1>1. TypeInv => MonitorTypeOK
  BY DEF TypeInv
<1>2. QED BY TypeInit, TypeStep, <1>1, PTL DEF MonitorSpec

-----------------------------------------------------------------------------
(* A scan never stands on a freed region *)

(* Nothing listed is freed, also not by the next step of a thread that has  *)
(* unlinked a region; a scan holds the mutex, and stands on a listed region. *)
Listing == /\ NoRepeats(list) /\ \A r \in Listed(list) : r \notin gone
           /\ \A t \in Threads : pc[t] = "free" => ptr[t] \notin Listed(list)
Locking == \A t \in Threads :
               pc[t] = "scan" => holder = t /\ cursor[t] \in Listed(list) \cup {0}
ListInv == TypeInv /\ Listing /\ Locking

LEMMA ListInit == MonitorInit => ListInv
<1> SUFFICES ASSUME MonitorInit PROVE ListInv
  OBVIOUS
<1>1. Listing /\ Locking
  BY DEF MonitorInit, Listing, Locking, NoRepeats, Listed
<1>2. QED BY <1>1, TypeInit DEF ListInv

(* Steps that leave the list, the freed regions and the scans alone, and    *)
(* bring no thread to the point where it frees a region.                    *)
Aside == /\ UNCHANGED <<list, gone, holder, cursor>>
         /\ \A t \in Threads : /\ pc'[t] = "scan" => pc[t] = "scan"
                               /\ pc'[t] = "free" => pc[t] = "free" /\ ptr'[t] = ptr[t]

LEMMA AsideStep ==
  ASSUME ListInv, TypeInv', Aside
  PROVE  ListInv'
<1>1. Listing'
  BY DEF ListInv, Listing, Aside
<1>2. Locking'
  BY DEF ListInv, Locking, Aside
<1>3. QED BY <1>1, <1>2 DEF ListInv

LEMMA BeginScanKeepsList ==
  ASSUME ListInv, TypeInv', NEW t \in Threads, BeginScan(t)
  PROVE  ListInv'
<1> USE DEF ListInv, TypeInv, MonitorTypeOK, BeginScan, MoveTo
<1>1. First \in Listed(list) \cup {0}
  <2>1. CASE list # <<>>
    <3>1. 1 \in DOMAIN list
      BY <2>1, EmptySeq, LenProperties
    <3>2. QED BY <2>1, <3>1 DEF First, Listed
  <2>2. QED BY <2>1 DEF First
<1>2. NoOne \notin Threads
  BY MonitorAssumption
<1>3. Listing'
  BY DEF Listing, regions
<1>4. Locking'
  BY <1>1, <1>2 DEF Locking, regions
<1>5. QED BY <1>3, <1>4

LEMMA ScanKeepsList ==
  ASSUME ListInv, TypeInv', Scan
  PROVE  ListInv'
<1> USE DEF ListInv, TypeInv, MonitorTypeOK, MoveTo
<1>1. PICK t \in Threads : ScanOne(t) \/ EndScan(t)
  BY DEF Scan
<1>2. CASE ScanOne(t)
  <2>1. Listing'
    BY <1>2 DEF ScanOne, Listing, regions
  <2>2. PICK n \in Listed(list) \cup {0} : cursor' = [cursor EXCEPT ![t] = n]
    BY <1>2 DEF ScanOne
  <2>3. Locking'
    BY <1>2, <2>2 DEF ScanOne, Locking, regions
  <2>4. QED BY <2>1, <2>3
<1>3. CASE EndScan(t)
  <2>1. Listing'
    BY <1>3 DEF EndScan, Listing, regions
  <2>2. \A s \in Threads : pc[s] = "scan" => s = t
    BY <1>3 DEF EndScan, At, Locking
  <2>3. Locking'
    BY <1>3, <2>2 DEF EndScan, Locking, regions
  <2>4. QED BY <2>1, <2>3
<1>4. QED BY <1>1, <1>2, <1>3

LEMMA AddKeepsList ==
  ASSUME ListInv, TypeInv', NEW c \in Clients, NEW x \in Extents, AddRegion(c, x)
  PROVE  ListInv'
<1> USE DEF ListInv, TypeInv, MonitorTypeOK
<1> DEFINE new == Len(region) + 1
<1>1. new = Len(region') /\ new \notin DOMAIN region /\ list' = <<new>> \o list
  <2>1. Len(region') = Len(region) + 1
    BY AppendProperties DEF AddRegion
  <2>2. QED BY <2>1, LenProperties DEF AddRegion
<1>2. list \in Seq(Nat) /\ new \in Nat
  <2>1. DOMAIN region \subseteq Nat /\ Len(region) \in Nat
    BY Indices
  <2>2. QED BY <2>1, Wider
<1>3. Listed(list) \subseteq DOMAIN region
  BY ElementOfSeq, LenProperties DEF Listed
<1> HIDE DEF new
<1>4. Listed(list') = {new} \cup Listed(list) /\ NoRepeats(list')
  BY <1>1, <1>2, <1>3, InFront DEF Listing
<1>5. Listing'
  <2>1. \A r \in Listed(list') : r \notin gone
    BY <1>1, <1>4 DEF Listing
  <2>2. ASSUME NEW t \in Threads, pc[t] = "free" PROVE ptr[t] \notin Listed(list')
    <3>1. ptr[t] # 0
      BY <2>2 DEF Pointed, WithRegion
    <3>2. QED BY <2>2, <3>1, <1>1, <1>4 DEF Listing
  <2>3. QED BY <1>4, <2>1, <2>2 DEF Listing, AddRegion, local
<1>6. Locking'
  BY <1>4, MonitorAssumption DEF AddRegion, Locking, local
<1>7. QED BY <1>5, <1>6

LEMMA ClientKeepsList ==
  ASSUME ListInv, TypeInv', NEW c \in Clients, Client(c)
  PROVE  ListInv'
<1> USE DEF MoveTo
<1> c \in Threads
  BY DEF Threads
<1>t. pc \in [Threads -> {"none", "queued", "loop", "lock", "scan", "notify", "idle", "unlink",
                           "free", "next", "fix", "look_up", "copy", "bless"}]
      /\ ptr \in [Threads -> DOMAIN region \cup {0}]
  BY DEF ListInv, TypeInv, MonitorTypeOK
<1>1. CASE \E x \in Extents : AddRegion(c, x)
  BY <1>1, AddKeepsList
<1>2. CASE Unlink(c)
  <2>1. list \in Seq(DOMAIN region) /\ NoRepeats(list)
    BY DEF ListInv, TypeInv, MonitorTypeOK, Listing
  <2>2. /\ Listed(list') \subseteq Listed(list) /\ NoRepeats(list')
        /\ ptr[c] \notin Listed(list')
    BY <1>2, <2>1, AfterUnlink DEF Unlink
  <2>3. Listing'
    BY <1>2, <1>t, <2>2 DEF ListInv, Listing, Unlink, local
  <2>4. Locking'
    BY <1>2, <1>t, MonitorAssumption DEF ListInv, Locking, Unlink, local
  <2>5. QED BY <2>3, <2>4 DEF ListInv
<1>3. CASE FreeRegion(c)
  <2>1. ptr[c] \notin Listed(list)
    BY <1>3 DEF ListInv, Listing, FreeRegion, At
  <2>2. Listing'
    BY <1>3, <1>t, <2>1 DEF ListInv, Listing, FreeRegion
  <2>3. Locking'
    BY <1>3, <1>t DEF ListInv, Locking, FreeRegion
  <2>4. QED BY <2>2, <2>3 DEF ListInv
<1>4. CASE FixAllCall(c)
  BY <1>4, BeginScanKeepsList DEF FixAllCall
<1>5. CASE (\E x \in Extents : Backup(c, x)) \/ (\E b \in Listed(saved) : FreeBackup(c, b))
  <2>1. Aside
    BY <1>5 DEF Backup, FreeBackup, Aside, regions, local
  <2>2. QED BY <2>1, AsideStep
<1>6. CASE \E r \in Listed(list) : RemoveCall(c, r) \/ RestoreCall(c, r) \/ FixCall(c, r)
  <2>1. Aside
    BY <1>6, <1>t DEF RemoveCall, RestoreCall, FixCall, FindRegion, Aside, regions
  <2>2. QED BY <2>1, AsideStep
<1>7. CASE FixNext(c) \/ Fix(c) \/ LookUp(c) \/ Copy(c) \/ Bless(c)
  <2>1. CASE FixNext(c)
    BY <2>1, <1>t, AsideStep DEF FixNext, Aside, regions
  <2>2. CASE Fix(c)
    BY <2>2, <1>t, AsideStep DEF Fix, Done, Aside, regions
  <2>3. CASE LookUp(c)
    BY <2>3, <1>t, AsideStep DEF LookUp, Done, Aside, regions
  <2>4. CASE Copy(c) \/ Bless(c)
    BY <2>4, <1>t, AsideStep DEF Copy, Bless, Done, Aside, regions, local
  <2>5. QED BY <1>7, <2>1, <2>2, <2>3, <2>4
<1>8. QED BY <1>1, <1>2, <1>3, <1>4, <1>5, <1>6, <1>7 DEF Client

LEMMA ControlKeepsList ==
  ASSUME ListInv, TypeInv', Control
  PROVE  ListInv'
<1> USE DEF MoveTo
<1>t. pc \in [Threads -> {"none", "queued", "loop", "lock", "scan", "notify", "idle", "unlink",
                           "free", "next", "fix", "look_up", "copy", "bless"}]
  BY DEF ListInv, TypeInv, MonitorTypeOK
<1>1. CASE FreeRegions
  <2>1. Listed(list') = {} /\ NoRepeats(list')
    BY <1>1 DEF FreeRegions, Listed, NoRepeats
  <2>2. Listing' /\ Locking'
    BY <1>1, <2>1, MonitorAssumption DEF ListInv, Listing, Locking, FreeRegions, local
  <2>3. QED BY <2>2 DEF ListInv
<1>2. CASE Start \/ StopCall \/ Join \/ ShutdownCall \/ ShutdownRepair
  <2>1. Aside
    BY <1>2, <1>t DEF Start, StopCall, Join, ShutdownCall, ShutdownRepair, Stop, Aside,
                      regions, local
  <2>2. QED BY <2>1, AsideStep
<1>3. QED BY <1>1, <1>2 DEF Control

LEMMA ListStep == ListInv /\ [MonitorNext]_monitorVars => ListInv'
<1> SUFFICES ASSUME ListInv, [MonitorNext]_monitorVars PROVE ListInv'
  OBVIOUS
<1>1. TypeInv'
  BY TypeStep DEF ListInv
<1>2. CASE UNCHANGED monitorVars \/ \E a \in Addrs, v \in Values : Tamper(a, v)
  <2>1. Aside
    BY <1>2 DEF Tamper, monitorVars, Aside, regions, local
  <2>2. QED BY <1>1, <2>1, AsideStep
<1>3. CASE Audits
  <2>1. Audit \in Threads
    BY DEF Threads
  <2>2. CASE AuditScan
    BY <1>1, <2>1, <2>2, BeginScanKeepsList DEF AuditScan
  <2>3. CASE TakeTask \/ AuditCheck \/ Notify \/ AuditSleep
    <3>1. Aside
      BY <2>1, <2>3 DEF TakeTask, AuditCheck, Notify, AuditSleep, MoveTo, Aside, regions, local,
                        ListInv, TypeInv, MonitorTypeOK
    <3>2. QED BY <1>1, <3>1, AsideStep
  <2>4. QED BY <1>3, <2>2, <2>3 DEF Audits
<1>4. QED
  BY <1>1, <1>2, <1>3, ClientKeepsList, ScanKeepsList, ControlKeepsList DEF MonitorNext

(* Whatever is removed while an audit runs, ps14_memory_scan_all never       *)
(* stands on a region that has been freed.                                  *)
THEOREM ScanNeverOnFreed == MonitorSpec => []ScanSafe
<1>1. ListInv => ScanSafe
  <2> SUFFICES ASSUME ListInv, NEW t \in Threads, pc[t] = "scan"
               PROVE  cursor[t] \notin gone
    BY DEF ScanSafe
  <2>1. 0 \notin gone
    BY LenProperties DEF ListInv, TypeInv, MonitorTypeOK
  <2>2. QED BY <2>1 DEF ListInv, Listing, Locking
<1>2. QED BY ListInit, ListStep, <1>1, PTL DEF MonitorSpec

-----------------------------------------------------------------------------
(* The trusted hashes stay those of the program's own bytes *)

(* Two watched or saved extents that begin at the same address are the same *)
(* one: a repair looks a backup up by its address alone.                    *)
OneExtentPerAddress == \A x, y \in Extents : x.base = y.base => x = y

RegionsClean == \A r \in DOMAIN region : \E x \in Extents :
                    /\ region[r].base = x.base /\ region[r].size = x.size
                    /\ region[r].good = Content(Clean, x)
BackupsClean == \A b \in DOMAIN backup : \E x \in Extents :
                    backup[b].base = x.base /\ backup[b].data = Content(Clean, x)
(* A thread that restores holds a backup of its region.                     *)
Paired == \A t \in Threads :
              pc[t] \in WithBackup => backup[bak[t]].base = region[ptr[t]].base
TrustInv == TypeInv /\ RegionsClean /\ BackupsClean /\ Paired

LEMMA TrustInit == MonitorInit => TrustInv
<1> SUFFICES ASSUME MonitorInit PROVE TrustInv
  OBVIOUS
<1>1. RegionsClean /\ BackupsClean /\ Paired
  BY DEF MonitorInit, RegionsClean, BackupsClean, Paired, WithBackup
<1>2. QED BY <1>1, TypeInit DEF TrustInv

(* Steps that change no region and no backup, and bring no thread to the    *)
(* point where it restores.                                                 *)
Untrusting == /\ UNCHANGED <<region, backup>>
              /\ \A t \in Threads : pc'[t] \in WithBackup =>
                     pc[t] \in WithBackup /\ ptr'[t] = ptr[t] /\ bak'[t] = bak[t]

LEMMA UntrustingStep ==
  ASSUME TrustInv, TypeInv', Untrusting
  PROVE  TrustInv'
<1>1. RegionsClean' /\ BackupsClean'
  BY DEF TrustInv, RegionsClean, BackupsClean, Untrusting
<1>2. Paired'
  BY DEF TrustInv, Paired, Untrusting
<1>3. QED BY <1>1, <1>2 DEF TrustInv

(* A new region or backup is of clean bytes, and no thread holds it yet.    *)
LEMMA AddKeepsTrust ==
  ASSUME Careful, TrustInv, TypeInv', NEW c \in Clients, NEW x \in Extents, AddRegion(c, x)
  PROVE  TrustInv'
<1> DEFINE r == [base |-> x.base, size |-> x.size, good |-> Content(mem, x)]
<1>1. r.good = Content(Clean, x) /\ r.base = x.base /\ r.size = x.size
  BY DEF AddRegion, Allowed
<1>2. /\ DOMAIN region' = DOMAIN region \cup {Len(region) + 1}
      /\ \A i \in DOMAIN region : region'[i] = region[i]
      /\ region'[Len(region) + 1] = r
  <2>1. region' = Append(region, r) /\ region \in Seq([base : Int, size : Nat, good : Datas])
    BY DEF AddRegion, TrustInv, TypeInv, MonitorTypeOK
  <2> HIDE DEF r
  <2>2. QED BY <2>1, Extended
<1> HIDE DEF r
<1>3. RegionsClean'
  BY <1>1, <1>2 DEF TrustInv, RegionsClean
<1>4. BackupsClean'
  BY DEF TrustInv, BackupsClean, AddRegion, backups
<1>5. Paired'
  <2>1. \A t \in Threads : pc[t] \in WithBackup => ptr[t] \in DOMAIN region
    BY DEF TrustInv, TypeInv, MonitorTypeOK, Pointed, WithRegion, WithBackup
  <2>2. QED BY <2>1, <1>2 DEF TrustInv, Paired, AddRegion, backups, local
<1>6. QED BY <1>3, <1>4, <1>5 DEF TrustInv

LEMMA BackupKeepsTrust ==
  ASSUME Careful, TrustInv, TypeInv', NEW c \in Clients, NEW x \in Extents, Backup(c, x)
  PROVE  TrustInv'
<1> DEFINE b == [base |-> x.base, data |-> Content(mem, x)]
<1>1. b.data = Content(Clean, x) /\ b.base = x.base
  BY DEF Backup, Allowed
<1>2. /\ DOMAIN backup' = DOMAIN backup \cup {Len(backup) + 1}
      /\ \A i \in DOMAIN backup : backup'[i] = backup[i]
      /\ backup'[Len(backup) + 1] = b
  <2>1. backup' = Append(backup, b) /\ backup \in Seq([base : Int, data : Datas])
    BY DEF Backup, TrustInv, TypeInv, MonitorTypeOK
  <2> HIDE DEF b
  <2>2. QED BY <2>1, Extended
<1> HIDE DEF b
<1>3. BackupsClean'
  BY <1>1, <1>2 DEF TrustInv, BackupsClean
<1>4. RegionsClean'
  BY DEF TrustInv, RegionsClean, Backup, regions
<1>5. Paired'
  <2>1. \A t \in Threads : pc[t] \in WithBackup => bak[t] \in DOMAIN backup
    BY DEF TrustInv, TypeInv, MonitorTypeOK, Pointed, WithBackup
  <2>2. QED BY <2>1, <1>2 DEF TrustInv, Paired, Backup, regions, local
<1>6. QED BY <1>3, <1>4, <1>5 DEF TrustInv

(* A repair pairs a region with a backup of the same address.               *)
LEMMA LookUpKeepsTrust ==
  ASSUME TrustInv, TypeInv', NEW c \in Clients, LookUp(c)
  PROVE  TrustInv'
<1>1. RegionsClean' /\ BackupsClean'
  BY DEF TrustInv, RegionsClean, BackupsClean, LookUp, regions, backups
<1>2. Paired'
  <2> USE DEF TrustInv, TypeInv, MonitorTypeOK, Paired, WithBackup
  <2>1. CASE Done(c)
    BY <2>1 DEF LookUp, Done, MoveTo, regions, backups
  <2>2. CASE ~Done(c)
    <3>1. PICK i \in DOMAIN saved :
               /\ backup[saved[i]].base = region[ptr[c]].base /\ MoveTo(c, "copy")
               /\ bak' = [bak EXCEPT ![c] = saved[i]] /\ UNCHANGED ptr
      BY <2>2 DEF LookUp, Newest
    <3>2. QED BY <3>1 DEF LookUp, MoveTo, regions, backups
  <2>3. QED BY <2>1, <2>2
<1>3. QED BY <1>1, <1>2 DEF TrustInv

(* The hash that a repair installs is that of the backup: a clean one.      *)
LEMMA BlessKeepsTrust ==
  ASSUME OneExtentPerAddress, TrustInv, TypeInv', NEW c \in Clients, Bless(c)
  PROVE  TrustInv'
<1> DEFINE r == ptr[c]
           b == bak[c]
<1>1. c \in Threads /\ pc[c] = "bless"
  BY DEF Threads, Bless, At
<1>2. r \in DOMAIN region /\ b \in DOMAIN backup
  BY <1>1 DEF TrustInv, TypeInv, MonitorTypeOK, Pointed, WithRegion, WithBackup
<1>3. backup[b].base = region[r].base
  BY <1>1 DEF TrustInv, Paired, WithBackup
<1>4. PICK x \in Extents : region[r].base = x.base /\ region[r].size = x.size
  BY <1>2 DEF TrustInv, RegionsClean
<1>5. PICK y \in Extents : backup[b].base = y.base /\ backup[b].data = Content(Clean, y)
  BY <1>2 DEF TrustInv, BackupsClean
<1>6. x = y
  BY <1>3, <1>4, <1>5 DEF OneExtentPerAddress
<1>7. /\ DOMAIN region' = DOMAIN region
      /\ \A i \in DOMAIN region : /\ region'[i].base = region[i].base
                                  /\ region'[i].size = region[i].size
                                  /\ i # r => region'[i] = region[i]
      /\ region'[r].good = backup[b].data
  <2>1. \A i \in DOMAIN region : region[i] \in [base : Int, size : Nat, good : Datas]
    BY Stored DEF TrustInv
  <2>2. region' = [region EXCEPT ![r].good = backup[b].data]
    BY DEF Bless
  <2>3. QED BY <1>2, <2>1, <2>2
<1>8. RegionsClean'
  BY <1>2, <1>4, <1>5, <1>6, <1>7 DEF TrustInv, RegionsClean
<1>9. BackupsClean'
  BY DEF TrustInv, BackupsClean, Bless, backups
<1>10. Paired'
  <2>1. \A t \in Threads : pc'[t] \in WithBackup =>
            pc[t] \in WithBackup /\ ptr'[t] = ptr[t] /\ bak'[t] = bak[t]
    BY <1>1 DEF Bless, Done, MoveTo, TrustInv, TypeInv, MonitorTypeOK, WithBackup
  <2>2. \A t \in Threads : pc[t] \in WithBackup => ptr[t] \in DOMAIN region
    BY DEF TrustInv, TypeInv, MonitorTypeOK, Pointed, WithRegion, WithBackup
  <2>3. QED BY <2>1, <2>2, <1>7 DEF TrustInv, Paired, Bless, backups
<1>11. QED BY <1>8, <1>9, <1>10 DEF TrustInv

LEMMA ClientKeepsTrust ==
  ASSUME Careful, OneExtentPerAddress, TrustInv, TypeInv', NEW c \in Clients, Client(c)
  PROVE  TrustInv'
<1> c \in Threads
  BY DEF Threads
<1>t. /\ pc \in [Threads -> {"none", "queued", "loop", "lock", "scan", "notify", "idle", "unlink",
                             "free", "next", "fix", "look_up", "copy", "bless"}]
      /\ ptr \in [Threads -> DOMAIN region \cup {0}]
      /\ bak \in [Threads -> DOMAIN backup \cup {0}]
  BY DEF TrustInv, TypeInv, MonitorTypeOK
<1> USE DEF MoveTo, WithBackup
<1>1. CASE \E x \in Extents : AddRegion(c, x) \/ Backup(c, x)
  BY <1>1, AddKeepsTrust, BackupKeepsTrust
<1>2. CASE LookUp(c) \/ Bless(c)
  BY <1>2, LookUpKeepsTrust, BlessKeepsTrust
<1>3. CASE Copy(c)
  <2>1. Untrusting
    BY <1>3, <1>t DEF Copy, At, Untrusting, regions, backups, local
  <2>2. QED BY <2>1, UntrustingStep
<1>4. CASE \E r \in Listed(list) : RemoveCall(c, r) \/ RestoreCall(c, r) \/ FixCall(c, r)
  <2>1. Untrusting
    BY <1>4, <1>t DEF RemoveCall, RestoreCall, FixCall, FindRegion, Untrusting, regions, backups
  <2>2. QED BY <2>1, UntrustingStep
<1>5. CASE Unlink(c) \/ FreeRegion(c) \/ \E b \in Listed(saved) : FreeBackup(c, b)
  <2>1. Untrusting
    BY <1>5, <1>t DEF Unlink, FreeRegion, FreeBackup, Untrusting, regions, backups, local
  <2>2. QED BY <2>1, UntrustingStep
<1>6. CASE FixAllCall(c)
  <2>1. Untrusting
    BY <1>6, <1>t DEF FixAllCall, BeginScan, Untrusting, regions, backups
  <2>2. QED BY <2>1, UntrustingStep
<1>7. CASE FixNext(c)
  <2>1. Untrusting
    BY <1>7, <1>t DEF FixNext, Untrusting, regions, backups
  <2>2. QED BY <2>1, UntrustingStep
<1>8. CASE Fix(c)
  <2>1. Untrusting
    BY <1>8, <1>t DEF Fix, Done, Untrusting, regions, backups
  <2>2. QED BY <2>1, UntrustingStep
<1>9. QED BY <1>1, <1>2, <1>3, <1>4, <1>5, <1>6, <1>7, <1>8 DEF Client

LEMMA TrustStep ==
  ASSUME Careful, OneExtentPerAddress
  PROVE  TrustInv /\ [MonitorNext]_monitorVars => TrustInv'
<1> SUFFICES ASSUME TrustInv, [MonitorNext]_monitorVars PROVE TrustInv'
  OBVIOUS
<1>1. TypeInv'
  BY TypeStep DEF TrustInv
<1>t. pc \in [Threads -> {"none", "queued", "loop", "lock", "scan", "notify", "idle", "unlink",
                           "free", "next", "fix", "look_up", "copy", "bless"}]
  BY DEF TrustInv, TypeInv, MonitorTypeOK
<1>2. CASE UNCHANGED monitorVars \/ \E a \in Addrs, v \in Values : Tamper(a, v)
  <2>1. Untrusting
    BY <1>2 DEF Tamper, monitorVars, Untrusting, regions, backups, local
  <2>2. QED BY <1>1, <2>1, UntrustingStep
<1>3. CASE Scan \/ Audits
  <2>1. Untrusting
    BY <1>3, <1>t DEF Scan, ScanOne, EndScan, Audits, TakeTask, AuditCheck, AuditScan, BeginScan, Notify,
                      AuditSleep, MoveTo, WithBackup, Untrusting, regions, backups, local
  <2>2. QED BY <1>1, <2>1, UntrustingStep
<1>4. CASE Control
  <2>1. Untrusting
    BY <1>4, <1>t DEF Control, Start, StopCall, Join, ShutdownCall, FreeRegions, ShutdownRepair,
                      Stop, MoveTo, WithBackup, Untrusting, regions, backups, local
  <2>2. QED BY <1>1, <2>1, UntrustingStep
<1>5. QED BY <1>1, <1>2, <1>3, <1>4, ClientKeepsTrust DEF MonitorNext

(* When regions and backups are taken of clean memory, and an address        *)
(* begins one extent only, no interleaving of tampering, audits and repairs  *)
(* makes the monitor trust other bytes than the program's.                  *)
THEOREM OnlyCleanTrusted ==
  ASSUME Careful, OneExtentPerAddress
  PROVE  MonitorSpec => []TrustKept
<1>1. TrustInv => TrustKept
  <2> SUFFICES ASSUME TrustInv, NEW r \in DOMAIN region
               PROVE  region[r].good = Content(Clean, region[r])
    BY DEF TrustKept
  <2>1. PICK x \in Extents : /\ region[r].base = x.base /\ region[r].size = x.size
                             /\ region[r].good = Content(Clean, x)
    BY DEF TrustInv, RegionsClean
  <2>2. Content(Clean, region[r]) = Content(Clean, x)
    BY <2>1 DEF Content, Cells
  <2>3. QED BY <2>1, <2>2
<1>2. QED BY TrustInit, TrustStep, <1>1, PTL DEF MonitorSpec

-----------------------------------------------------------------------------
(* Nothing freed is touched before a client frees something *)

(* Between a stop that has returned and the next start there is no audit,   *)
(* and a shutdown frees the list only then.                                 *)
LifeInv == /\ ctl # "idle" => ~running
           /\ ~running /\ ctl \notin {"join", "join_exit"} => pc[Audit] = "none"

LEMMA LifeStep ==
  ASSUME TypeInv, LifeInv, [MonitorNext]_monitorVars
  PROVE  LifeInv'
<1> USE DEF LifeInv, MoveTo
<1>t. /\ running \in BOOLEAN /\ ctl \in {"idle", "join", "join_exit", "freeing"}
      /\ pc \in [Threads -> {"none", "queued", "loop", "lock", "scan", "notify", "idle", "unlink",
                             "free", "next", "fix", "look_up", "copy", "bless"}]
      /\ Audit \in Threads /\ Audit \notin Clients /\ Clients \subseteq Threads
  BY MonitorAssumption DEF TypeInv, MonitorTypeOK, Threads
<1>1. ASSUME UNCHANGED <<running, ctl>>, pc[Audit] = "none" => pc'[Audit] = "none"
      PROVE LifeInv'
  BY <1>1
<1>2. ASSUME NEW c \in Clients, Client(c) PROVE LifeInv'
  <2>1. UNCHANGED <<running, ctl>>
    BY <1>2 DEF Client, AddRegion, Backup, RemoveCall, RestoreCall, FixCall, FindRegion, Unlink,
                FreeRegion, FreeBackup, FixAllCall, BeginScan, FixNext, Fix, LookUp, Copy, Bless,
                control
  <2>2. pc' = pc \/ \E place : pc' = [pc EXCEPT ![c] = place]
    BY <1>2 DEF Client, AddRegion, Backup, RemoveCall, RestoreCall, FixCall, FindRegion, Unlink,
                FreeRegion, FreeBackup, FixAllCall, BeginScan, FixNext, Fix, LookUp, Copy, Bless, Done
  <2>3. QED BY <2>1, <2>2, <1>1, <1>t
<1>3. CASE Scan
  BY <1>3, <1>t, <1>1 DEF Scan, ScanOne, EndScan, At, control
<1>4. CASE Audits
  <2>1. CASE AuditCheck
    BY <2>1, <1>t DEF AuditCheck, At, control
  <2>2. CASE TakeTask \/ AuditScan \/ Notify \/ AuditSleep
    BY <2>2, <1>t, <1>1 DEF TakeTask, AuditScan, BeginScan, Notify, AuditSleep, At, control
  <2>3. QED BY <2>1, <2>2, <1>4 DEF Audits
<1>5. CASE Start
  BY <1>5, <1>t DEF Start
<1>6. CASE StopCall \/ ShutdownCall
  BY <1>6, <1>t DEF StopCall, ShutdownCall, Stop
<1>7. CASE Join
  BY <1>7, <1>t DEF Join
<1>8. CASE FreeRegions
  BY <1>8, <1>t DEF FreeRegions
<1>9. CASE ShutdownRepair \/ UNCHANGED monitorVars \/ \E a \in Addrs, v \in Values : Tamper(a, v)
  BY <1>9, <1>1 DEF ShutdownRepair, monitorVars, Tamper, control
<1>10. QED BY <1>2, <1>3, <1>4, <1>5, <1>6, <1>7, <1>8, <1>9 DEF MonitorNext, Control

(* Every pointer in somebody's hands, and what it points to.                *)
Alive(q) == \A i \in DOMAIN q : q[i] \notin gone
Held ==
    /\ \A c \in Clients : /\ pc[c] \in WithRegion => ptr[c] \notin gone
                          /\ pc[c] \in WithBackup => bak[c] \notin bgone
                          /\ Alive(found[c])
                          /\ pc[c] = "idle" => found[c] = <<>>
    /\ pc[Audit] \in {"scan", "notify"} => Alive(found[Audit])
    /\ \A i \in DOMAIN saved : saved[i] \notin bgone
TouchInv == ~removed => ~misused /\ Held

LEMMA AliveSeqs ==
  ASSUME TypeInv, NEW q \in Seq(DOMAIN region), Alive(q)
  PROVE  /\ \A r \in DOMAIN region : r \notin gone => Alive(Append(q, r))
         /\ q # <<>> => Head(q) \notin gone /\ Alive(Tail(q))
<1>1. ASSUME NEW r \in DOMAIN region, r \notin gone PROVE Alive(Append(q, r))
  BY <1>1, AppendProperties, LenProperties DEF Alive
<1>2. ASSUME q # <<>> PROVE Head(q) \notin gone /\ Alive(Tail(q))
  <2>1. /\ Len(q) \in Nat /\ Len(q) # 0 /\ Head(q) = q[1] /\ Tail(q) \in Seq(DOMAIN region)
        /\ Len(Tail(q)) = Len(q) - 1 /\ \A i \in 1..(Len(q) - 1) : Tail(q)[i] = q[i + 1]
    BY <1>2, HeadTailProperties, LenProperties, EmptySeq
  <2>2. DOMAIN Tail(q) = 1..(Len(q) - 1) /\ DOMAIN q = 1..Len(q)
    BY <2>1, LenProperties
  <2>3. QED BY <2>1, <2>2 DEF Alive
<1>3. QED BY <1>1, <1>2

(* Steps that free nothing and hand nothing out.                            *)
Neutral == /\ UNCHANGED <<gone, bgone, saved, removed, misused, ptr, bak, found>>
           /\ \A t \in Threads : pc'[t] = pc[t] \/ (t = Audit /\ pc'[t] # "scan")

LEMMA NeutralStep ==
  ASSUME TypeInv, TypeInv', TouchInv, Neutral, pc'[Audit] = "notify" => pc[Audit] \in {"scan", "notify"}
  PROVE  TouchInv'
BY MonitorAssumption DEF TouchInv, Neutral, Held, Alive, Threads

LEMMA ClientTouches ==
  ASSUME ListInv, TypeInv', TouchInv, NEW c \in Clients, Client(c)
  PROVE  TouchInv'
<1> USE DEF MoveTo, At
<1>t. /\ TypeInv /\ c \in Threads /\ Audit \in Threads /\ Audit \notin Clients /\ c # Audit
      /\ Clients \subseteq Threads
      /\ pc \in [Threads -> {"none", "queued", "loop", "lock", "scan", "notify", "idle", "unlink",
                             "free", "next", "fix", "look_up", "copy", "bless"}]
      /\ found \in [Threads -> Seq(DOMAIN region)]
      /\ ptr \in [Threads -> DOMAIN region \cup {0}]
      /\ bak \in [Threads -> DOMAIN backup \cup {0}]
  BY MonitorAssumption DEF ListInv, TypeInv, MonitorTypeOK, Threads
<1> SUFFICES ASSUME ~removed' PROVE ~misused' /\ Held'
  BY DEF TouchInv
<1>r. ~removed /\ ~misused /\ Held
  <2>1. UNCHANGED removed
    BY DEF Client, AddRegion, Backup, RemoveCall, RestoreCall, FixCall, FindRegion, Unlink,
         FreeRegion, FreeBackup, FixAllCall, BeginScan, FixNext, Fix, LookUp, Copy, Bless
  <2>2. QED BY <2>1 DEF TouchInv
<1>e. Alive(<<>>) /\ Alive(<<>>)'
  BY DEF Alive
<1>1. CASE \E x \in Extents : AddRegion(c, x)
  <2>1. UNCHANGED <<gone, bgone, saved, misused, pc, ptr, bak, found>>
    BY <1>1 DEF AddRegion, backups, local
  <2>2. QED BY <2>1, <1>r DEF Held, Alive
<1>2. CASE \E x \in Extents : Backup(c, x)
  <2>1. PICK x \in Extents : Backup(c, x)
    BY <1>2
  <2>2. /\ UNCHANGED <<gone, bgone, pc, ptr, bak, found, misused>>
        /\ saved' = <<Len(backup')>> \o saved
        /\ backup' = Append(backup, [base |-> x.base, data |-> Content(mem, x)])
    BY <2>1 DEF Backup, regions, local
  <2>3. /\ backup \in Seq([base : Int, data : Datas]) /\ saved \in Seq(DOMAIN backup)
        /\ bgone \subseteq DOMAIN backup
    BY <1>t DEF TypeInv, MonitorTypeOK
  <2>4. Len(backup') = Len(backup) + 1 /\ Len(backup') \notin bgone /\ Len(backup) \in Nat
        /\ DOMAIN backup = 1..Len(backup)
    BY <2>2, <2>3, AppendProperties, LenProperties
  <2>5. saved \in Seq(Nat) /\ <<Len(backup')>> \in Seq(Nat)
    <3>1. saved \in Seq(Nat)
      BY <2>3, <2>4, Wider
    <3>2. QED BY <3>1, <2>4
  <2>6. \A i \in DOMAIN saved' : saved'[i] \notin bgone
    <3>1. /\ Len(saved') = 1 + Len(saved) /\ Len(saved) \in Nat /\ DOMAIN saved = 1..Len(saved)
          /\ DOMAIN saved' = 1..(1 + Len(saved))
          /\ \A i \in 1..(1 + Len(saved)) :
                saved'[i] = IF i <= 1 THEN Len(backup') ELSE saved[i - 1]
      <4>1. Len(<<Len(backup')>>) = 1 /\ <<Len(backup')>>[1] = Len(backup')
        OBVIOUS
      <4>2. QED BY <4>1, <2>2, <2>5, ConcatProperties, LenProperties
    <3>2. QED BY <3>1, <2>4, <1>r DEF Held
  <2>7. QED BY <2>2, <2>6, <1>r DEF Held, Alive
<1>3. ASSUME NEW r \in Listed(list), NEW use, use \in {"unlink", "look_up", "fix"}, FindRegion(c, r, use)
      PROVE ~misused' /\ Held'
  <2>1. r \notin gone
    BY DEF ListInv, Listing
  <2>2. /\ UNCHANGED <<gone, bgone, saved, bak, found, misused>>
        /\ ptr' = [ptr EXCEPT ![c] = r] /\ pc' = [pc EXCEPT ![c] = use]
    BY <1>3 DEF FindRegion, regions, backups
  <2>3. QED BY <2>1, <2>2, <1>3, <1>r, <1>t DEF Held, Alive, WithRegion, WithBackup
<1>4. CASE \E r \in Listed(list) : RemoveCall(c, r) \/ RestoreCall(c, r) \/ FixCall(c, r)
  BY <1>4, <1>3 DEF RemoveCall, RestoreCall, FixCall
<1>5. CASE Unlink(c)
  <2>1. /\ UNCHANGED <<gone, bgone, saved, bak, found, misused, ptr>>
        /\ pc[c] = "unlink" /\ pc' = [pc EXCEPT ![c] = "free"]
    BY <1>5 DEF Unlink, backups, local
  <2>2. QED BY <2>1, <1>r, <1>t DEF Held, Alive, WithRegion, WithBackup
<1>6. CASE FreeRegion(c) \/ \E b \in Listed(saved) : FreeBackup(c, b)
  BY <1>6 DEF FreeRegion, FreeBackup
<1>7. CASE FixAllCall(c)
  <2>1. /\ UNCHANGED <<gone, bgone, saved, bak, ptr, misused>>
        /\ found' = [found EXCEPT ![c] = <<>>] /\ pc' = [pc EXCEPT ![c] = "scan"]
    BY <1>7 DEF FixAllCall, BeginScan, regions, backups
  <2>2. QED BY <2>1, <1>r, <1>t, <1>e DEF Held, Alive, WithRegion, WithBackup
<1>8. CASE FixNext(c)
  <2>1. UNCHANGED <<gone, bgone, saved, bak, misused>> /\ pc[c] = "next"
    BY <1>8 DEF FixNext, regions, backups
  <2>2. CASE found[c] = <<>>
    <3>1. pc' = [pc EXCEPT ![c] = "idle"] /\ found' = found /\ ptr' = ptr
      BY <2>2, <1>8 DEF FixNext
    <3>2. QED BY <3>1, <2>1, <2>2, <1>r, <1>t DEF Held, Alive, WithRegion, WithBackup
  <2>3. CASE found[c] # <<>>
    <3>1. /\ pc' = [pc EXCEPT ![c] = "fix"] /\ ptr' = [ptr EXCEPT ![c] = Head(found[c])]
          /\ found' = [found EXCEPT ![c] = Tail(found[c])]
      BY <2>3, <1>8 DEF FixNext
    <3>2. Head(found[c]) \notin gone /\ Alive(Tail(found[c]))
      BY <2>3, <1>r, <1>t, AliveSeqs DEF Held
    <3>3. QED BY <3>1, <3>2, <2>1, <1>r, <1>t DEF Held, Alive, WithRegion, WithBackup
  <2>4. QED BY <2>2, <2>3
<1>9. CASE Fix(c)
  <2>1. UNCHANGED <<gone, bgone, saved, found>> /\ pc[c] = "fix" /\ misused' = (ptr[c] \in gone)
    BY <1>9 DEF Fix, Touch, regions, backups
  <2>2. \/ pc' = [pc EXCEPT ![c] = "look_up"] /\ UNCHANGED <<ptr, bak>>
        \/ /\ pc' = [pc EXCEPT ![c] = "next"] /\ ptr' = [ptr EXCEPT ![c] = 0]
           /\ bak' = [bak EXCEPT ![c] = 0]
    BY <1>9 DEF Fix, Done
  <2>3. QED BY <2>1, <2>2, <1>r, <1>t DEF Held, Alive, WithRegion, WithBackup
<1>10. CASE LookUp(c)
  <2>1. UNCHANGED <<gone, bgone, saved, found>> /\ pc[c] = "look_up" /\ misused' = (ptr[c] \in gone)
    BY <1>10 DEF LookUp, Touch, regions, backups
  <2>2. \/ /\ pc' = [pc EXCEPT ![c] = "next"] /\ ptr' = [ptr EXCEPT ![c] = 0]
           /\ bak' = [bak EXCEPT ![c] = 0]
        \/ \E i \in DOMAIN saved : /\ pc' = [pc EXCEPT ![c] = "copy"] /\ UNCHANGED ptr
                                   /\ bak' = [bak EXCEPT ![c] = saved[i]]
    BY <1>10 DEF LookUp, Done
  <2>3. QED BY <2>1, <2>2, <1>r, <1>t DEF Held, Alive, WithRegion, WithBackup
<1>11. CASE Copy(c)
  <2>1. /\ UNCHANGED <<gone, bgone, saved, found, ptr, bak>> /\ pc[c] = "copy"
        /\ misused' = (ptr[c] \in gone \/ bak[c] \in bgone) /\ pc' = [pc EXCEPT ![c] = "bless"]
    BY <1>11 DEF Copy, TouchBoth, regions, backups, local
  <2>2. QED BY <2>1, <1>r, <1>t DEF Held, Alive, WithRegion, WithBackup
<1>12. CASE Bless(c)
  <2>1. /\ UNCHANGED <<gone, bgone, saved, found>> /\ pc[c] = "bless"
        /\ misused' = (ptr[c] \in gone \/ bak[c] \in bgone)
        /\ pc' = [pc EXCEPT ![c] = "next"] /\ ptr' = [ptr EXCEPT ![c] = 0]
        /\ bak' = [bak EXCEPT ![c] = 0]
    BY <1>12 DEF Bless, Done, TouchBoth, backups
  <2>2. QED BY <2>1, <1>r, <1>t DEF Held, Alive, WithRegion, WithBackup
<1>13. QED
  BY <1>1, <1>2, <1>4, <1>5, <1>6, <1>7, <1>8, <1>9, <1>10, <1>11, <1>12 DEF Client

LEMMA TouchStep ==
  ASSUME ListInv, TypeInv', LifeInv, TouchInv, [MonitorNext]_monitorVars
  PROVE  TouchInv'
<1> USE DEF MoveTo, At
<1>t. /\ TypeInv /\ Audit \in Threads /\ Audit \notin Clients /\ Clients \subseteq Threads
      /\ pc \in [Threads -> {"none", "queued", "loop", "lock", "scan", "notify", "idle", "unlink",
                             "free", "next", "fix", "look_up", "copy", "bless"}]
      /\ found \in [Threads -> Seq(DOMAIN region)]
      /\ cursor \in [Threads -> DOMAIN region \cup {0}]
  BY MonitorAssumption DEF ListInv, TypeInv, MonitorTypeOK, Threads
<1>1. ASSUME NEW t \in Threads, ScanOne(t) PROVE TouchInv'
  <2> SUFFICES ASSUME ~removed' PROVE ~misused' /\ Held'
    BY DEF TouchInv
  <2>1. /\ ~removed /\ Held /\ pc[t] = "scan" /\ UNCHANGED <<gone, bgone, saved, pc, ptr, bak>>
        /\ cursor[t] # 0
    BY <1>1 DEF ScanOne, TouchInv, regions, backups, Scanning
  <2>2. cursor[t] \notin gone /\ cursor[t] \in DOMAIN region
    BY <2>1, <1>t DEF ListInv, Listing, Locking
  <2>3. Alive(found[t])
    BY <2>1 DEF Held, Threads
  <2>4. found' = [found EXCEPT ![t] = found'[t]] /\ Alive(found'[t])
    <3>1. found' = found \/ found' = [found EXCEPT ![t] = Append(found[t], cursor[t])]
      BY <1>1, <1>t DEF ScanOne
    <3>2. Alive(Append(found[t], cursor[t]))
      BY <2>2, <2>3, <1>t, AliveSeqs
    <3>3. QED BY <3>1, <3>2, <2>3, <1>t
  <2>5. ~misused'
    BY <1>1, <2>2 DEF ScanOne
  <2>6. \A u \in Threads : u # t => found'[u] = found[u]
    BY <2>4, <1>t
  <2> HIDE DEF MoveTo, At
  <2>7. QED
    <3>1. \A u \in Threads : Alive(found[u]) => Alive(found'[u])
      BY <2>4, <2>6
    <3>2. \A u \in Threads : Alive(found[u])' <=> Alive(found'[u])
      BY <2>1 DEF Alive
    <3>3. \A c \in Clients : pc[c] = "idle" => found'[c] = <<>>
      BY <2>1, <2>6, <1>t DEF Held
    <3>4. QED BY <3>1, <3>2, <3>3, <2>1, <2>5, <1>t DEF Held
<1>2. ASSUME NEW t \in Threads, EndScan(t) PROVE TouchInv'
  <2>1. /\ UNCHANGED <<gone, bgone, saved, removed, misused, ptr, bak, found>>
        /\ pc[t] = "scan" /\ pc' = [pc EXCEPT ![t] = IF t = Audit THEN "notify" ELSE "next"]
    BY <1>2 DEF EndScan, regions, backups
  <2>2. QED BY <2>1, <1>t DEF TouchInv, Held, Alive, WithRegion, WithBackup
<1>3. CASE AuditScan
  <2>1. /\ UNCHANGED <<gone, bgone, saved, removed, misused, ptr, bak>>
        /\ pc' = [pc EXCEPT ![Audit] = "scan"] /\ found' = [found EXCEPT ![Audit] = <<>>]
    BY <1>3 DEF AuditScan, BeginScan, regions, backups
  <2>2. \A c \in Clients : pc'[c] = pc[c] /\ found'[c] = found[c]
    BY <2>1, <1>t
  <2>3. found'[Audit] = <<>>
    BY <2>1, <1>t
  <2>4. QED BY <2>1, <2>2, <2>3 DEF TouchInv, Held, Alive
<1>4. CASE Notify
  <2> SUFFICES ASSUME ~removed' PROVE ~misused' /\ Held'
    BY DEF TouchInv
  <2>1. /\ ~removed /\ Held /\ pc[Audit] = "notify" /\ found[Audit] # <<>>
        /\ UNCHANGED <<gone, bgone, saved, pc, ptr, bak>>
        /\ misused' = (Head(found[Audit]) \in gone)
        /\ found' = [found EXCEPT ![Audit] = Tail(found[Audit])]
    BY <1>4 DEF Notify, TouchInv, regions, backups
  <2>2. Head(found[Audit]) \notin gone /\ Alive(Tail(found[Audit]))
    BY <2>1, <1>t, AliveSeqs DEF Held
  <2>3. \A c \in Clients : found'[c] = found[c]
    BY <2>1, <1>t
  <2>4. found'[Audit] = Tail(found[Audit])
    BY <2>1, <1>t
  <2>5. Alive(found'[Audit]) /\ (Alive(found[Audit])' <=> Alive(found'[Audit]))
    BY <2>1, <2>2, <2>4 DEF Alive
  <2>6. ~misused'
    BY <2>1, <2>2
  <2>7. QED BY <2>1, <2>3, <2>5, <2>6 DEF Held, Alive
<1>5. CASE TakeTask \/ AuditCheck \/ AuditSleep
  <2>1. Neutral /\ pc'[Audit] # "notify"
    BY <1>5, <1>t DEF TakeTask, AuditCheck, AuditSleep, Neutral, regions, backups, local
  <2>2. QED BY <1>t, <2>1, NeutralStep
<1>6. CASE Start \/ StopCall \/ Join \/ ShutdownCall
  <2>1. Neutral /\ (pc'[Audit] = "notify" => pc[Audit] = "notify")
    BY <1>6, <1>t DEF Start, StopCall, Join, ShutdownCall, Stop, Neutral, regions, backups, local
  <2>2. QED BY <1>t, <2>1, NeutralStep
<1>7. CASE FreeRegions
  <2>1. /\ ClientsIdle /\ pc[Audit] = "none"
        /\ UNCHANGED <<bgone, saved, removed, misused, pc, ptr, bak, found>>
    BY <1>7 DEF FreeRegions, LifeInv, backups, local
  <2>2. QED BY <2>1 DEF ClientsIdle, TouchInv, Held, Alive, WithRegion, WithBackup
<1>8. CASE ShutdownRepair
  <2>1. /\ ClientsIdle /\ saved' = <<>>
        /\ UNCHANGED <<gone, removed, misused, pc, ptr, bak, found>>
    BY <1>8 DEF ShutdownRepair, regions, local
  <2>2. QED BY <2>1 DEF ClientsIdle, TouchInv, Held, Alive, WithRegion, WithBackup
<1>9. CASE UNCHANGED monitorVars \/ \E a \in Addrs, v \in Values : Tamper(a, v)
  <2>1. Neutral /\ UNCHANGED pc
    BY <1>9 DEF Tamper, monitorVars, Neutral, regions, backups, local
  <2>2. QED BY <1>t, <2>1, NeutralStep
<1>10. QED
  BY <1>1, <1>2, <1>3, <1>4, <1>5, <1>6, <1>7, <1>8, <1>9, ClientTouches
  DEF MonitorNext, Scan, Audits, Control

(* Whatever is scanned, repaired, started, stopped and shut down at once, on *)
(* any number of threads: as long as no client has removed a region or freed *)
(* a backup, nothing that was freed is touched.                             *)
THEOREM MonitorNoMisuse == MonitorSpec => []NoMisuse
<1>1. MonitorInit => LifeInv /\ TouchInv
  <2> SUFFICES ASSUME MonitorInit PROVE LifeInv /\ TouchInv
    OBVIOUS
  <2>1. Audit \in Threads /\ Audit \notin Clients /\ Clients \subseteq Threads
    BY MonitorAssumption DEF Threads
  <2>2. QED BY <2>1 DEF MonitorInit, LifeInv, TouchInv, Held, Alive, WithRegion, WithBackup
<1>2. ListInv /\ LifeInv /\ TouchInv /\ [MonitorNext]_monitorVars => LifeInv' /\ TouchInv'
  <2> SUFFICES ASSUME ListInv, LifeInv, TouchInv, [MonitorNext]_monitorVars PROVE LifeInv' /\ TouchInv'
    OBVIOUS
  <2>1. TypeInv /\ TypeInv'
    BY TypeStep DEF ListInv
  <2>2. QED BY <2>1, LifeStep, TouchStep
<1>3. TouchInv => NoMisuse
  BY DEF TouchInv, NoMisuse
<1>4. QED BY <1>1, <1>2, <1>3, ListInit, ListStep, PTL DEF MonitorSpec
=============================================================================
