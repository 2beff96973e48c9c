--------------------------- MODULE AdvancedProofs ---------------------------
(***************************************************************************)
(* The advanced checks for any number of clients, audit threads, regions,   *)
(* callbacks and blocks: what an audit thread looks at is in the list and    *)
(* allocated, also when everything is shut down at once; the callbacks are   *)
(* the ones registered until one with an older one behind it is taken out;   *)
(* and what the detectors count, for a region of any size and contents.      *)
(***************************************************************************)
EXTENDS Advanced, Detectors, FiniteSetTheorems, WellFoundedInduction, TLAPS

-----------------------------------------------------------------------------
(* The auditor *)

Region == [block : Blocks, name : Names]
Places == {"idle", "reset", "link", "launch", "join", "free", "callbacks"}
Stages == {"none", "test", "lock", "scan", "relock", "done"}

LEMMA Removed ==
    ASSUME NEW S, NEW s \in Seq(S), NEW i \in 1..Len(s)
    PROVE  /\ RemoveAt(s, i) \in Seq(S) /\ Len(RemoveAt(s, i)) = Len(s) - 1
           /\ \A j \in 1..(Len(s) - 1) : RemoveAt(s, i)[j] = s[IF j < i THEN j ELSE j + 1]
<1>1. Len(s) \in Nat
  OBVIOUS
<1> DEFINE f == SubSeq(s, 1, i - 1)
           g == SubSeq(s, i + 1, Len(s))
<1>2. /\ f \in Seq(S) /\ Len(f) = i - 1 /\ \A j \in 1..(i - 1) : f[j] = s[j]
  BY <1>1
<1>3. /\ g \in Seq(S) /\ Len(g) = Len(s) - i /\ \A j \in 1..(Len(s) - i) : g[j] = s[i + j]
  BY <1>1
<1>4. RemoveAt(s, i) = f \o g
  BY DEF RemoveAt
<1> HIDE DEF f, g
<1>5. RemoveAt(s, i) \in Seq(S) /\ Len(RemoveAt(s, i)) = Len(s) - 1
  BY <1>1, <1>2, <1>3, <1>4
<1>6. ASSUME NEW j \in 1..(Len(s) - 1) PROVE RemoveAt(s, i)[j] = s[IF j < i THEN j ELSE j + 1]
  <2>1. (f \o g)[j] = IF j <= Len(f) THEN f[j] ELSE g[j - Len(f)]
    BY <1>1, <1>2, <1>3
  <2>2. CASE j < i
    BY <1>1, <1>2, <1>4, <2>1, <2>2
  <2>3. CASE ~(j < i)
    <3>1. j - (i - 1) \in 1..(Len(s) - i) /\ i + (j - (i - 1)) = j + 1
      BY <1>1, <2>3
    <3>2. QED BY <1>1, <1>2, <1>3, <1>4, <2>1, <2>3, <3>1
  <2>4. QED BY <2>2, <2>3
<1>7. QED BY <1>5, <1>6

LEMMA Prefixed ==
    ASSUME NEW S, NEW s \in Seq(S), NEW e \in S
    PROVE  /\ <<e>> \o s \in Seq(S) /\ Len(<<e>> \o s) = Len(s) + 1
           /\ (<<e>> \o s)[1] = e
           /\ \A j \in 1..Len(s) : (<<e>> \o s)[j + 1] = s[j]
OBVIOUS

-----------------------------------------------------------------------------
(* Types *)

(* What the calls change, and what they cannot.                             *)
ListType == /\ regions \in Seq(Region) /\ allocated \subseteq Blocks
            /\ owner \in Workers \cup {Null}
FlagType == /\ recursive \in BOOLEAN /\ ready \in BOOLEAN /\ running \in BOOLEAN
            /\ violations \in BOOLEAN /\ raced \in BOOLEAN
WorkType == worker \in [Workers -> Stages] /\ cursor \in [Workers -> Blocks \cup {Null}]
CallType == /\ call \in [Clients -> Places]
            /\ arg \in [Clients -> Names \cup Reasons \cup {Null}]
            /\ \A c \in Clients : call[c] = "link" => arg[c] \in Names
TypeInv  == ListType /\ FlagType /\ WorkType /\ CallType

LEMMA TypeInit == AuditorInit => TypeInv
<1> SUFFICES ASSUME AuditorInit PROVE TypeInv
  OBVIOUS
<1> USE DEF AuditorInit
<1>1. ListType
  BY DEF ListType
<1>2. WorkType
  BY DEF WorkType, Stages
<1>3. CallType
  BY DEF CallType, Places
<1>4. FlagType
  BY DEF FlagType
<1>5. QED BY <1>1, <1>2, <1>3, <1>4 DEF TypeInv

LEMMA CallsType ==
    ASSUME CallType, NEW c \in Clients, NEW place \in Places,
           NEW a \in Names \cup Reasons \cup {Null}, Calls(c, place, a),
           place = "link" => a \in Names
    PROVE  CallType'
BY DEF CallType, Calls

LEMMA GoesType ==
    ASSUME WorkType, NEW w \in Workers, NEW from, NEW to \in Stages, Goes(w, from, to)
    PROVE  worker' \in [Workers -> Stages]
BY DEF WorkType, Goes

LEMMA AfterType ==
    ASSUME ListType, NEW b
    PROVE  /\ After(b) \in Blocks \cup {Null}
           /\ After(b) # Null => \E i \in DOMAIN regions : regions[i].block = After(b)
<1> DEFINE at == {i \in 1..(Len(regions) - 1) : regions[i].block = b}
           i == CHOOSE k \in at : TRUE
<1>1. CASE at = {}
  BY <1>1 DEF After
<1>2. CASE at # {}
  <2>1. After(b) = regions[1 + i].block /\ i \in at
    BY <1>2 DEF After
  <2>2. Len(regions) \in Nat /\ DOMAIN regions = 1..Len(regions) /\ i \in 1..(Len(regions) - 1)
    BY <2>1 DEF ListType
  <2> HIDE DEF i, at
  <2>3. 1 + i \in DOMAIN regions
    BY <2>2
  <2>4. regions[1 + i] \in Region
    BY <2>2, <2>3 DEF ListType
  <2>5. QED BY <2>1, <2>3, <2>4 DEF Region
<1>3. QED BY <1>1, <1>2

LEMMA TypeStep == TypeInv /\ [AuditorNext]_auditorVars => TypeInv'
<1> SUFFICES ASSUME TypeInv, [AuditorNext]_auditorVars
             PROVE  ListType' /\ FlagType' /\ WorkType' /\ CallType'
  BY DEF TypeInv
<1>0. ListType /\ FlagType /\ WorkType /\ CallType
  BY DEF TypeInv
<1> USE AuditorAssumption DEF AuditorAssumption, Reasons
<1>w. ASSUME UNCHANGED <<worker, cursor>> PROVE WorkType'
  BY <1>0, <1>w DEF WorkType
<1>c. ASSUME UNCHANGED <<call, arg>> PROVE CallType'
  BY <1>0, <1>c DEF CallType
<1>a. ASSUME UNCHANGED <<recursive, auditor>> PROVE ListType' /\ FlagType'
  BY <1>0, <1>a DEF auditor, ListType, FlagType
<1>1. ASSUME NEW w \in Workers, Work(w) PROVE ListType' /\ FlagType' /\ WorkType' /\ CallType'
  <2>1. UNCHANGED <<recursive, ready, running, regions, allocated, raced, call, arg>>
    BY <1>1 DEF Work, TestRunning, Lock, ScanClean, ScanTampered, Count, Unlock, auditor
  <2>2. owner' \in Workers \cup {Null} /\ violations' \in BOOLEAN
    BY <1>0, <1>1 DEF Work, TestRunning, Lock, ScanClean, ScanTampered, Count, Unlock, auditor, ListType, FlagType
  <2>3. worker' \in [Workers -> Stages]
    <3>1. ASSUME NEW from, NEW to \in Stages, Goes(w, from, to) PROVE worker' \in [Workers -> Stages]
      BY <1>0, <3>1, GoesType
    <3>2. \A to \in {"lock", "done", "scan", "relock", "test"} : to \in Stages
      BY DEF Stages
    <3>3. CASE TestRunning(w)
      <4>1. Goes(w, "test", "lock") \/ Goes(w, "test", "done")
        BY <3>3 DEF TestRunning
      <4>2. QED BY <3>1, <3>2, <4>1
    <3>4. CASE Lock(w) \/ ScanTampered(w) \/ Count(w) \/ Unlock(w)
      <4>1. Goes(w, "lock", "scan") \/ Goes(w, "scan", "relock") \/ Goes(w, "relock", "scan") \/ Goes(w, "scan", "test")
        BY <3>4 DEF Lock, ScanTampered, Count, Unlock
      <4>2. QED BY <3>1, <3>2, <4>1
    <3>5. CASE ScanClean(w)
      BY <1>0, <3>5 DEF ScanClean, WorkType
    <3>6. QED BY <1>1, <3>3, <3>4, <3>5 DEF Work
  <2>4. cursor' \in [Workers -> Blocks \cup {Null}]
    <3>1. CASE Lock(w)
      <4>1. regions # <<>> => regions[1].block \in Blocks
        <5>1. regions # <<>> => regions[1] \in Region
          BY <1>0 DEF ListType
        <5>2. QED BY <5>1 DEF Region
      <4>2. QED BY <1>0, <3>1, <4>1 DEF Lock, WorkType
    <3>2. CASE ScanClean(w) \/ Count(w)
      <4>1. cursor' = [cursor EXCEPT ![w] = After(cursor[w])]
        BY <3>2 DEF ScanClean, Count
      <4>2. QED BY <1>0, <4>1, AfterType DEF WorkType
    <3>3. QED BY <1>0, <1>1, <3>1, <3>2 DEF Work, TestRunning, ScanTampered, Unlock, WorkType
  <2>5. QED BY <1>0, <1>c, <2>1, <2>2, <2>3, <2>4 DEF ListType, FlagType, WorkType
<1>2. ASSUME NEW c \in Clients, NEW n \in Names, AddCall(c, n)
      PROVE  ListType' /\ FlagType' /\ WorkType' /\ CallType'
  <2>1. Calls(c, "link", n) \/ Calls(c, "reset", n)
    BY <1>2 DEF AddCall
  <2>2. CallType'
    BY <1>0, <2>1, CallsType DEF Places
  <2>3. QED BY <1>w, <1>a, <1>2, <2>2 DEF AddCall
<1>3. ASSUME NEW c \in Clients, NEW n \in Names, RemoveRegion(c, n)
      PROVE  ListType' /\ FlagType' /\ WorkType' /\ CallType'
  <2>1. PICK i \in DOMAIN regions : regions' = RemoveAt(regions, i) /\ allocated' = allocated \ {regions[i].block}
    BY <1>3 DEF RemoveRegion, Unlink
  <2>2. regions' \in Seq(Region)
    BY <1>0, <2>1, Removed DEF ListType
  <2>3. UNCHANGED <<recursive, ready, running, owner, violations, raced, worker, cursor, call, arg>>
    BY <1>3 DEF RemoveRegion
  <2>4. QED BY <1>0, <1>c, <1>w, <2>1, <2>2, <2>3 DEF ListType, FlagType
<1>4. ASSUME NEW c \in Clients, NEW b \in Blocks, Link(c, b)
      PROVE  ListType' /\ FlagType' /\ WorkType' /\ CallType'
  <2> DEFINE e == [block |-> b, name |-> arg[c]]
  <2>1. /\ e \in Region /\ regions' = <<e>> \o regions
        /\ allocated' = allocated \cup {b} /\ Calls(c, "idle", Null)
    BY <1>0, <1>4 DEF Link, CallType, Region, Returns
  <2> HIDE DEF e
  <2>2. regions' \in Seq(Region)
    BY <1>0, <2>1, Prefixed DEF ListType
  <2>3. CallType'
    BY <1>0, <2>1, CallsType DEF Places
  <2>4. QED BY <1>0, <1>w, <1>4, <2>1, <2>2, <2>3 DEF Link, ListType, FlagType
<1>5. ASSUME NEW c \in Clients, NEW place \in {"link", "launch"}, Reset(c, place),
             place = "link" => arg[c] \in Names
      PROVE  ListType' /\ FlagType' /\ WorkType' /\ CallType'
  <2>1. CallType'
    BY <1>0, <1>5 DEF Reset, CallType, Places
  <2>2. ListType'
    BY <1>0, <1>5 DEF Reset, ListType
  <2>3. raced' \in BOOLEAN
    BY <1>0, <1>5, Zenon DEF Reset, FlagType
  <2>4. FlagType'
    BY <1>0, <1>5, <2>3 DEF Reset, FlagType
  <2>5. QED BY <1>w, <1>5, <2>1, <2>2, <2>4 DEF Reset
<1>6. CASE StartCall
  <2>1. Calls(Controller, "launch", "start") \/ Calls(Controller, "reset", "start")
    BY <1>6 DEF StartCall
  <2>2. CallType'
    BY <1>0, <2>1, CallsType DEF Places
  <2>3. QED BY <1>w, <1>a, <1>6, <2>2 DEF StartCall
<1>7. CASE Launch
  <2>1. CallType'
    BY <1>0, <1>7, CallsType DEF Launch, Returns, Places
  <2>2. \E submitted \in SUBSET Workers :
           worker' = [w \in Workers |-> IF w \in submitted THEN "test" ELSE "none"]
    BY <1>7 DEF Launch
  <2>3. worker' \in [Workers -> Stages]
    BY <2>2 DEF Stages
  <2>4. QED BY <1>0, <1>7, <2>1, <2>3 DEF Launch, ListType, FlagType, WorkType
<1>8. CASE LaunchFails
  <2>1. CallType'
    BY <1>0, <1>8, CallsType DEF LaunchFails, Returns, Places
  <2>2. QED BY <1>a, <1>w, <1>8, <2>1 DEF LaunchFails
<1>9. ASSUME NEW a \in {"stop", "shutdown"}, StopCall(a)
      PROVE  ListType' /\ FlagType' /\ WorkType' /\ CallType'
  <2>1. Calls(Controller, "join", a) \/ Calls(Controller, "free", a)
    BY <1>9 DEF StopCall
  <2>2. CallType'
    BY <1>0, <2>1, CallsType DEF Places
  <2>3. QED BY <1>0, <1>w, <1>9, <2>2 DEF StopCall, ListType, FlagType
<1>10. CASE Join
  <2>1. Calls(Controller, "idle", Null) \/ (call' = [call EXCEPT ![Controller] = "free"] /\ UNCHANGED arg)
    BY <1>10 DEF Join, Returns
  <2>2. CallType'
    BY <1>0, <2>1, CallsType DEF Places, CallType
  <2>3. WorkType'
    BY <1>0, <1>10 DEF Join, WorkType, Stages
  <2>4. QED BY <1>a, <1>10, <2>2, <2>3 DEF Join
<1>11. CASE FreeRegions
  <2>1. Calls(Controller, "idle", Null) \/ (call' = [call EXCEPT ![Controller] = "callbacks"] /\ UNCHANGED arg)
    BY <1>11 DEF FreeRegions, Returns
  <2>2. CallType'
    BY <1>0, <2>1, CallsType DEF Places, CallType
  <2>3. FlagType'
    BY <1>0, <1>11 DEF FreeRegions, FlagType
  <2>4. regions' = <<>> /\ allocated' \subseteq allocated /\ owner' = owner
    BY <1>11 DEF FreeRegions
  <2>5. ListType'
    BY <1>0, <2>4 DEF ListType
  <2>6. QED BY <1>w, <1>11, <2>2, <2>3, <2>5 DEF FreeRegions
<1>12. CASE UNCHANGED auditorVars
  BY <1>a, <1>w, <1>c, <1>12 DEF auditorVars, auditor
<1>13. QED
  BY <1>1, <1>2, <1>3, <1>4, <1>5, <1>6, <1>7, <1>8, <1>9, <1>10, <1>11, <1>12
  DEF AuditorNext, Control, ClientCalls, StartReset, AddReset, Stop, Shutdown

(* What the audit threads and the calls work with keeps its type.           *)
THEOREM AuditorTypeCorrect == AuditorSpec => []AuditorTypeOK
<1>1. TypeInv => AuditorTypeOK
  BY DEF TypeInv, AuditorTypeOK, ListType, FlagType, WorkType, CallType, Region, Places, Stages
<1>2. QED BY <1>1, TypeInit, TypeStep, PTL DEF AuditorSpec

-----------------------------------------------------------------------------
(* Audits *)

Auditing(w) == worker[w] \in {"scan", "relock"}

(* An audit thread among the regions holds the mutex.                       *)
Watching == \A w \in Workers : Auditing(w) =>
    /\ owner = w
    /\ cursor[w] # Null => \E i \in DOMAIN regions : regions[i].block = cursor[w]

(* The list holds allocated blocks, each once.                              *)
Listed ==
    /\ \A i \in DOMAIN regions : regions[i].block \in allocated
    /\ \A i, j \in DOMAIN regions : regions[i].block = regions[j].block => i = j

(* What is not initialised has no region, no thread and no one inside.      *)
Dormant ==
    /\ ~ready => /\ regions = <<>> /\ ~running
                 /\ call[Controller] \notin {"launch", "join", "free"}
                 /\ \A c \in Clients : call[c] # "link"
    /\ ~running /\ call[Controller] # "join" => \A w \in Workers : worker[w] = "none"
    /\ call[Controller] \in {"join", "free"} => ~running

(* While it is shut down nobody else is inside.                             *)
Closing ==
    /\ call[Controller] = "join" => arg[Controller] \in {"stop", "shutdown", "advanced"}
    /\ call[Controller] = "free" => arg[Controller] \in {"shutdown", "advanced"}
    /\ call[Controller] = "callbacks" => arg[Controller] = "advanced"
    /\ ClosingCall => /\ call[Controller] \in {"join", "free", "callbacks"}
                      /\ \A c \in Clients : c # Controller => call[c] = "idle"

SafeInv == Closing /\ (~raced => Watching /\ Listed /\ Dormant)

LEMMA WorkSafe ==
    ASSUME TypeInv, SafeInv, ~raced, NEW w \in Workers, Work(w)
    PROVE  SafeInv'
<1> USE AuditorAssumption DEF AuditorAssumption, Reasons
<1>0. /\ Watching /\ Listed /\ Dormant /\ Closing
      /\ ListType /\ WorkType
  BY DEF SafeInv, TypeInv
<1>1. /\ UNCHANGED <<ready, running, regions, allocated, raced, call, arg>>
      /\ \A v \in Workers : v # w => worker'[v] = worker[v] /\ cursor'[v] = cursor[v]
      /\ worker[w] # "none"
  BY <1>0 DEF Work, TestRunning, Lock, ScanClean, ScanTampered, Count, Unlock, Goes, auditor, WorkType
<1>2. Listed' /\ Closing'
  BY <1>0, <1>1 DEF Listed, Closing, ClosingCall
<1>3. Dormant'
  BY <1>0, <1>1 DEF Dormant
<1>4. Watching'
  <2>1. CASE TestRunning(w)
    <3>1. ~Auditing(w)' /\ UNCHANGED <<owner, cursor>>
      BY <1>0, <2>1 DEF TestRunning, Goes, auditor, Auditing, WorkType
    <3>2. QED BY <1>0, <1>1, <3>1 DEF Watching, Auditing
  <2>2. CASE Lock(w)
    <3>1. owner = Null /\ owner' = w /\ cursor'[w] = IF regions = <<>> THEN Null ELSE regions[1].block
      BY <1>0, <2>2 DEF Lock, WorkType
    <3>2. \A v \in Workers : v # w => ~Auditing(v)'
      BY <1>0, <1>1, <3>1 DEF Watching, Auditing
    <3>3. regions # <<>> => 1 \in DOMAIN regions
      BY <1>0 DEF ListType
    <3>4. QED BY <1>1, <3>1, <3>2, <3>3 DEF Watching
  <2>3. CASE ScanClean(w) \/ Count(w)
    <3>1. Auditing(w) /\ cursor'[w] = After(cursor[w]) /\ owner' = owner
      BY <1>0, <2>3 DEF ScanClean, Count, Goes, auditor, Auditing, WorkType
    <3>2. cursor'[w] # Null => \E i \in DOMAIN regions : regions[i].block = cursor'[w]
      BY <1>0, <3>1, AfterType
    <3>3. QED BY <1>0, <1>1, <3>1, <3>2 DEF Watching, Auditing
  <2>4. CASE ScanTampered(w)
    <3>1. Auditing(w) /\ UNCHANGED <<owner, cursor>>
      BY <2>4 DEF ScanTampered, Goes, auditor, Auditing
    <3>2. QED BY <1>0, <1>1, <3>1 DEF Watching, Auditing
  <2>5. CASE Unlock(w)
    <3>1. Auditing(w) /\ ~Auditing(w)'
      BY <1>0, <2>5 DEF Unlock, Goes, Auditing, WorkType
    <3>2. \A v \in Workers : v # w => ~Auditing(v)'
      BY <1>0, <1>1, <3>1 DEF Watching, Auditing
    <3>3. QED BY <3>1, <3>2 DEF Watching
  <2>6. QED BY <2>1, <2>2, <2>3, <2>4, <2>5 DEF Work
<1>5. QED BY <1>2, <1>3, <1>4 DEF SafeInv

(* Initialising is safe for whoever finds it dormant.                       *)
LEMMA ResetSafe ==
    ASSUME TypeInv, SafeInv, ~raced, NEW c \in Clients, NEW place \in {"link", "launch"}, Reset(c, place)
    PROVE  SafeInv'
<1> USE AuditorAssumption DEF AuditorAssumption, Reasons
<1>0. Watching /\ Listed /\ Dormant /\ Closing /\ CallType
  BY DEF SafeInv, TypeInv
<1>1. /\ ready' /\ regions' = <<>> /\ call[c] = "reset"
      /\ call' = [call EXCEPT ![c] = place] /\ raced' = (raced \/ ready)
      /\ UNCHANGED <<running, worker, arg>>
  BY DEF Reset
<1>2. Closing'
  <2>1. ~ClosingCall
    <3>1. c # Controller => call[c] # "idle"
      BY <1>1
    <3>2. c = Controller => call[Controller] \notin {"join", "free", "callbacks"}
      BY <1>1
    <3>3. QED BY <1>0, <3>1, <3>2 DEF Closing
  <2>2. call'[Controller] = call[Controller] \/ call'[Controller] \in {"link", "launch"}
    BY <1>0, <1>1 DEF CallType
  <2>3. arg'[Controller] = arg[Controller] /\ ~ClosingCall'
    BY <1>1, <2>1 DEF ClosingCall
  <2>4. QED BY <1>0, <2>2, <2>3 DEF Closing
<1>3. ASSUME ~raced' PROVE Watching' /\ Listed' /\ Dormant'
  <2>1. ~ready
    BY <1>1, <1>3, Zenon
  <2>2. /\ ~running /\ call[Controller] \notin {"launch", "join", "free"}
        /\ \A w \in Workers : worker[w] = "none"
    BY <1>0, <2>1 DEF Dormant
  <2>3. call'[Controller] \notin {"join", "free"}
    BY <1>0, <1>1, <2>2 DEF CallType
  <2>4. QED BY <1>1, <2>2, <2>3 DEF Watching, Listed, Auditing, Dormant
<1>4. QED BY <1>2, <1>3, Zenon DEF SafeInv

LEMMA CallSafe ==
    ASSUME TypeInv, SafeInv, ~raced, NEW c \in Clients, ClientCalls(c)
    PROVE  SafeInv'
<1>0. /\ Watching /\ Listed /\ Dormant /\ Closing
      /\ ListType /\ WorkType /\ CallType
  BY DEF SafeInv, TypeInv
<1>1. ASSUME NEW n \in Names, AddCall(c, n) PROVE SafeInv'
  <2>1. /\ call[c] = "idle" /\ ~ClosingCall /\ n \notin {"stop", "shutdown", "advanced"}
        /\ call' = [call EXCEPT ![c] = IF ready THEN "link" ELSE "reset"]
        /\ arg' = [arg EXCEPT ![c] = n]
        /\ UNCHANGED <<auditor, worker, cursor>>
    BY <1>1, AuditorAssumption DEF AddCall, Calls, Idle, AuditorAssumption, Reasons
  <2>2. Watching' /\ Listed'
    BY <1>0, <2>1 DEF Watching, Listed, Auditing, auditor
  <2>3. Dormant'
    BY <1>0, <2>1 DEF Dormant, CallType, auditor
  <2>4. Closing'
    BY <1>0, <2>1, AuditorAssumption DEF Closing, ClosingCall, CallType, AuditorAssumption, Reasons
  <2>5. QED BY <2>2, <2>3, <2>4 DEF SafeInv
<1>2. ASSUME NEW n \in Names, RemoveRegion(c, n) PROVE SafeInv'
  <2>1. PICK k \in DOMAIN regions : regions' = RemoveAt(regions, k) /\ allocated' = allocated \ {regions[k].block}
    BY <1>2 DEF RemoveRegion, Unlink
  <2>2. owner = Null /\ ready /\ UNCHANGED <<ready, running, owner, worker, cursor, call, arg>>
    BY <1>2 DEF RemoveRegion
  <2>3. Watching'
    BY <1>0, <2>2, AuditorAssumption DEF Watching, Auditing, AuditorAssumption
  <2>4. Listed'
    <3>1. /\ Len(regions) \in Nat /\ DOMAIN regions = 1..Len(regions)
          /\ DOMAIN regions' = 1..(Len(regions) - 1)
          /\ \A j \in 1..(Len(regions) - 1) : regions'[j] = regions[IF j < k THEN j ELSE j + 1]
      <4>1. regions \in Seq(Region) /\ Len(regions) \in Nat /\ k \in 1..Len(regions)
        BY <1>0 DEF ListType
      <4>2. /\ RemoveAt(regions, k) \in Seq(Region) /\ Len(RemoveAt(regions, k)) = Len(regions) - 1
            /\ \A j \in 1..(Len(regions) - 1) : RemoveAt(regions, k)[j] = regions[IF j < k THEN j ELSE j + 1]
        BY <4>1, Removed
      <4>3. QED BY <2>1, <4>1, <4>2
    <3> DEFINE Was(j) == IF j < k THEN j ELSE j + 1
    <3>2. /\ \A j \in DOMAIN regions' : /\ Was(j) \in DOMAIN regions /\ Was(j) # k
                                         /\ regions'[j] = regions[Was(j)]
          /\ \A i, j \in DOMAIN regions' : Was(i) = Was(j) => i = j
      BY <3>1
    <3> HIDE DEF Was
    <3>3. \A j \in DOMAIN regions' : regions'[j].block \in allocated'
      BY <1>0, <2>1, <3>2 DEF Listed
    <3>4. \A i, j \in DOMAIN regions' : regions'[i].block = regions'[j].block => i = j
      BY <1>0, <3>2 DEF Listed
    <3>5. QED BY <3>3, <3>4 DEF Listed
  <2>5. Dormant' /\ Closing'
    BY <1>0, <2>2 DEF Dormant, Closing, ClosingCall
  <2>6. QED BY <2>3, <2>4, <2>5 DEF SafeInv
<1>3. ASSUME NEW b \in Blocks, Link(c, b) PROVE SafeInv'
  <2> DEFINE e == [block |-> b, name |-> arg[c]]
  <2>1. /\ e \in Region /\ regions' = <<e>> \o regions /\ e.block = b
        /\ allocated' = allocated \cup {b} /\ b \notin allocated
        /\ call[c] = "link" /\ owner = Null /\ owner' = owner
        /\ call' = [call EXCEPT ![c] = "idle"] /\ arg' = [arg EXCEPT ![c] = Null]
        /\ UNCHANGED <<ready, running, worker, cursor>>
    BY <1>0, <1>3 DEF Link, CallType, Region, Returns, Calls
  <2> HIDE DEF e
  <2>2. Watching'
    BY <1>0, <2>1, AuditorAssumption DEF Watching, Auditing, AuditorAssumption
  <2>3. Listed'
    <3>1. /\ Len(regions) \in Nat /\ DOMAIN regions = 1..Len(regions)
          /\ DOMAIN regions' = 1..(Len(regions) + 1)
          /\ regions'[1] = e
          /\ \A j \in 1..Len(regions) : regions'[j + 1] = regions[j]
      BY <1>0, <2>1, Prefixed DEF ListType
    <3>2. \A i \in DOMAIN regions' : i = 1 \/ (i - 1 \in DOMAIN regions /\ regions'[i] = regions[i - 1])
      BY <3>1
    <3>3. \A i \in DOMAIN regions : regions[i].block \in allocated
      BY <1>0 DEF Listed
    <3>4. QED BY <1>0, <2>1, <3>1, <3>2, <3>3 DEF Listed
  <2>4. ready
    BY <1>0, <2>1 DEF Dormant
  <2>5. Dormant'
    BY <1>0, <2>1, <2>4, AuditorAssumption DEF Dormant, CallType, AuditorAssumption
  <2>6. Closing'
    BY <1>0, <2>1, AuditorAssumption DEF Closing, ClosingCall, CallType, AuditorAssumption, Reasons
  <2>7. QED BY <2>2, <2>3, <2>5, <2>6 DEF SafeInv
<1>4. CASE AddReset(c)
  BY <1>4, ResetSafe DEF AddReset
<1>5. QED BY <1>1, <1>2, <1>3, <1>4 DEF ClientCalls, SafeInv

LEMMA ControlSafe ==
    ASSUME TypeInv, SafeInv, ~raced, Control
    PROVE  SafeInv'
<1> USE AuditorAssumption DEF AuditorAssumption, Reasons
<1>0. /\ Watching /\ Listed /\ Dormant /\ Closing
      /\ ListType /\ WorkType /\ CallType
  BY DEF SafeInv, TypeInv
<1>1. CASE StartCall
  <2>1. /\ call[Controller] = "idle" /\ ~ClosingCall
        /\ call' = [call EXCEPT ![Controller] = IF ready THEN "launch" ELSE "reset"]
        /\ arg' = [arg EXCEPT ![Controller] = "start"]
        /\ UNCHANGED <<auditor, worker, cursor>>
    BY <1>1 DEF StartCall, Calls, Idle
  <2>2. Watching' /\ Listed'
    BY <1>0, <2>1 DEF Watching, Listed, Auditing, auditor
  <2>3. Dormant'
    BY <1>0, <2>1 DEF Dormant, CallType, auditor
  <2>4. Closing'
    BY <1>0, <2>1 DEF Closing, ClosingCall, CallType
  <2>5. QED BY <2>2, <2>3, <2>4 DEF SafeInv
<1>2. CASE StartReset
  BY <1>2, ResetSafe DEF StartReset
<1>3. CASE Launch \/ LaunchFails
  <2>1. /\ call[Controller] = "launch"
        /\ call' = [call EXCEPT ![Controller] = "idle"] /\ arg' = [arg EXCEPT ![Controller] = Null]
        /\ UNCHANGED <<ready, regions, allocated, owner, cursor>>
    BY <1>3 DEF Launch, LaunchFails, Returns, Calls, auditor
  <2>2. call'[Controller] = "idle" /\ arg'[Controller] = Null
        /\ \A c \in Clients : c # Controller => call'[c] = call[c]
    BY <1>0, <2>1 DEF CallType
  <2>3. ready /\ ready'
    BY <1>0, <2>1 DEF Dormant
  <2>4. (running' /\ \A w \in Workers : ~Auditing(w)') \/ UNCHANGED <<running, worker>>
    <3>1. CASE Launch
      <4>1. running' /\ \A w \in Workers : worker'[w] \in {"test", "none"}
        BY <3>1 DEF Launch
      <4>2. QED BY <4>1 DEF Auditing
    <3>2. CASE LaunchFails
      BY <3>2 DEF LaunchFails, auditor
    <3>3. QED BY <1>3, <3>1, <3>2
  <2>5. Watching' /\ Listed'
    BY <1>0, <2>1, <2>4 DEF Watching, Listed, Auditing
  <2>6. Dormant'
    BY <1>0, <2>1, <2>2, <2>3, <2>4 DEF Dormant
  <2>7. Closing'
    BY <2>2 DEF Closing, ClosingCall
  <2>8. QED BY <2>5, <2>6, <2>7 DEF SafeInv
<1>4. CASE Stop \/ Shutdown
  <2>1. PICK a \in {"stop", "shutdown"} :
           /\ StopCall(a) /\ call[Controller] = "idle" /\ ~ClosingCall
           /\ a = "stop" => running
           /\ a = "shutdown" => \A c \in Clients : call[c] = "idle"
    BY <1>4 DEF Stop, Shutdown, Idle
  <2>2. /\ call' = [call EXCEPT ![Controller] = IF running THEN "join" ELSE "free"]
        /\ arg' = [arg EXCEPT ![Controller] = a] /\ ~running'
        /\ UNCHANGED <<ready, regions, allocated, owner, worker, cursor>>
    BY <2>1 DEF StopCall, Calls
  <2>3. /\ call'[Controller] = (IF running THEN "join" ELSE "free") /\ arg'[Controller] = a
        /\ \A c \in Clients : c # Controller => call'[c] = call[c]
    BY <1>0, <2>2 DEF CallType
  <2>4. ready
    BY <1>0, <1>4 DEF Dormant, Stop, Shutdown
  <2>5. Watching' /\ Listed'
    BY <1>0, <2>2 DEF Watching, Listed, Auditing
  <2>6. Dormant'
    BY <1>0, <2>1, <2>2, <2>3, <2>4 DEF Dormant
  <2>7. Closing'
    BY <2>1, <2>3 DEF Closing, ClosingCall
  <2>8. QED BY <2>5, <2>6, <2>7 DEF SafeInv
<1>5. CASE Join
  <2>1. /\ call[Controller] = "join" /\ \A w \in Workers : worker'[w] = "none"
        /\ UNCHANGED <<recursive, auditor, cursor>>
    BY <1>5 DEF Join
  <2>2. \/ arg[Controller] = "stop" /\ call'[Controller] = "idle" /\ arg'[Controller] = Null
        \/ /\ arg[Controller] \in {"shutdown", "advanced"} /\ call'[Controller] = "free"
           /\ arg'[Controller] = arg[Controller]
    BY <1>0, <1>5, <2>1 DEF Join, Returns, Calls, CallType, Closing
  <2>3. \A c \in Clients : c # Controller => call'[c] = call[c]
    BY <1>0, <1>5 DEF Join, Returns, Calls, CallType
  <2>4. Watching' /\ Listed'
    BY <1>0, <2>1 DEF Watching, Listed, Auditing, auditor
  <2>5. ready /\ ~running
    BY <1>0, <2>1 DEF Dormant
  <2>6. Dormant'
    BY <2>1, <2>5 DEF Dormant, auditor
  <2>7. Closing'
    BY <1>0, <2>2, <2>3 DEF Closing, ClosingCall
  <2>8. QED BY <2>4, <2>6, <2>7 DEF SafeInv
<1>6. CASE FreeRegions
  <2>1. /\ call[Controller] = "free" /\ arg[Controller] \in {"shutdown", "advanced"}
        /\ regions' = <<>> /\ ~ready'
        /\ UNCHANGED <<running, owner, worker, cursor>>
    BY <1>0, <1>6 DEF FreeRegions, Closing
  <2>2. /\ \/ arg[Controller] = "shutdown" /\ call'[Controller] = "idle" /\ arg'[Controller] = Null
           \/ arg[Controller] = "advanced" /\ call'[Controller] = "callbacks" /\ arg' = arg
        /\ \A c \in Clients : c # Controller => call'[c] = call[c]
    BY <1>0, <1>6, <2>1 DEF FreeRegions, Returns, Calls, CallType
  <2>3. \A c \in Clients : c # Controller => call'[c] = "idle"
    BY <1>0, <2>1, <2>2 DEF Closing, ClosingCall
  <2>4. ~running /\ \A w \in Workers : worker[w] = "none"
    BY <1>0, <2>1 DEF Dormant
  <2>5. Watching' /\ Listed'
    BY <2>1, <2>4 DEF Watching, Listed, Auditing
  <2>6. Dormant' /\ Closing'
    BY <1>0, <2>1, <2>2, <2>3, <2>4 DEF Dormant, Closing, ClosingCall, CallType
  <2>7. QED BY <2>5, <2>6 DEF SafeInv
<1>7. QED BY <1>1, <1>2, <1>3, <1>4, <1>5, <1>6 DEF Control

LEMMA SafeStep == TypeInv /\ SafeInv /\ [AuditorNext]_auditorVars => SafeInv'
<1> SUFFICES ASSUME TypeInv, SafeInv, [AuditorNext]_auditorVars PROVE SafeInv'
  OBVIOUS
<1>1. CASE UNCHANGED auditorVars
  BY <1>1 DEF auditorVars, auditor, SafeInv, Watching, Auditing, Listed, Dormant, Closing, ClosingCall
<1>2. QED BY <1>1, WorkSafe, CallSafe, ControlSafe DEF AuditorNext

(* With any number of audit threads, whatever is added, removed or shut down *)
(* meanwhile, they look at regions that are in the list and allocated.      *)
THEOREM AuditsSafe == AuditorSpec => []AuditSafe
<1>1. AuditorInit => SafeInv
  BY AuditorAssumption
  DEF AuditorAssumption, Reasons, AuditorInit, SafeInv, Watching, Auditing, Listed, Dormant, Closing, ClosingCall
<1>2. SafeInv => AuditSafe
  BY DEF SafeInv, Watching, Auditing, Listed, AuditSafe
<1>3. QED BY <1>1, <1>2, TypeInit, TypeStep, SafeStep, PTL DEF AuditorSpec

-----------------------------------------------------------------------------
(* The auditor when all detectors are started and stopped *)

LEMMA WholeType == ASSUME TypeInv, Whole PROVE TypeInv'
<1>0. ListType /\ FlagType /\ WorkType /\ CallType
  BY DEF TypeInv
<1> USE AuditorAssumption DEF AuditorAssumption, Reasons
<1>1. CASE InitAll
  <2>1. violations' \in BOOLEAN /\ ready' \in BOOLEAN
    BY <1>0, <1>1 DEF InitAll, FlagType
  <2>2. UNCHANGED <<recursive, running, regions, allocated, owner, raced, worker, cursor, call, arg>>
    BY <1>1 DEF InitAll
  <2>3. QED BY <1>0, <2>1, <2>2 DEF TypeInv, ListType, FlagType, WorkType, CallType
<1>2. CASE ShutdownAll
  <2>1. UNCHANGED <<recursive, ready, regions, allocated, owner, violations, raced, worker, cursor>>
    BY <1>2 DEF ShutdownAll, StopCall, auditor
  <2>2. running' \in BOOLEAN
    BY <1>0, <1>2 DEF ShutdownAll, StopCall, auditor, FlagType
  <2>3. \E place \in {"join", "free", "callbacks"} : Calls(Controller, place, "advanced")
    BY <1>2 DEF ShutdownAll, StopCall
  <2>4. CallType'
    BY <1>0, <2>3, CallsType DEF Places
  <2>5. QED BY <1>0, <2>1, <2>2, <2>4 DEF TypeInv, ListType, FlagType, WorkType
<1>3. CASE FreeCallbacks
  <2>1. UNCHANGED <<recursive, auditor, worker, cursor>>
    BY <1>3 DEF FreeCallbacks, Break, auditorVars
  <2>2. Calls(Controller, "idle", Null) \/ UNCHANGED <<call, arg>>
    BY <1>3 DEF FreeCallbacks, Break, auditorVars, Returns
  <2>3. CallType'
    <3>1. CASE Calls(Controller, "idle", Null)
      BY <1>0, <3>1, CallsType DEF Places
    <3>2. CASE UNCHANGED <<call, arg>>
      BY <1>0, <3>2 DEF CallType
    <3>3. QED BY <2>2, <3>1, <3>2
  <2>4. QED BY <1>0, <2>1, <2>3 DEF TypeInv, ListType, FlagType, WorkType, auditor
<1>4. QED BY <1>1, <1>2, <1>3 DEF Whole

LEMMA WholeSafe == ASSUME TypeInv, SafeInv, Whole PROVE SafeInv'
<1>0. Closing /\ CallType
  BY DEF SafeInv, TypeInv
<1> USE AuditorAssumption DEF AuditorAssumption, Reasons
<1>1. CASE InitAll
  <2>1. ready' /\ UNCHANGED <<running, regions, allocated, owner, raced, worker, cursor, call, arg>>
    BY <1>1 DEF InitAll
  <2>2. Closing'
    BY <1>0, <2>1 DEF Closing, ClosingCall
  <2>3. ASSUME ~raced' PROVE Watching' /\ Listed' /\ Dormant'
    <3>1. Watching /\ Listed /\ Dormant
      BY <2>1, <2>3, Zenon DEF SafeInv
    <3>2. QED BY <2>1, <3>1 DEF Watching, Listed, Dormant, Auditing
  <2>4. QED BY <2>2, <2>3, Zenon DEF SafeInv
<1>2. CASE ShutdownAll
  <2>1. \A c \in Clients : call[c] = "idle"
    BY <1>2 DEF ShutdownAll, Calling, Idle
  <2>2. /\ UNCHANGED <<ready, regions, allocated, owner, raced, worker, cursor>>
        /\ (ready /\ ~running') \/ (~ready /\ running' = running)
    BY <1>2 DEF ShutdownAll, StopCall, auditor
  <2>3. PICK place \in {"join", "free", "callbacks"} :
           /\ Calls(Controller, place, "advanced")
           /\ ready => place = IF running THEN "join" ELSE "free"
           /\ ~ready => place = "callbacks"
    BY <1>2 DEF ShutdownAll, StopCall
  <2>4. /\ call'[Controller] = place /\ arg'[Controller] = "advanced"
        /\ \A c \in Clients : c # Controller => call'[c] = "idle"
    BY <1>0, <2>1, <2>3 DEF Calls, CallType
  <2>5. Closing'
    BY <2>4 DEF Closing
  <2>6. ASSUME ~raced' PROVE Watching' /\ Listed' /\ Dormant'
    <3>1. Watching /\ Listed /\ Dormant
      BY <2>2, <2>6, Zenon DEF SafeInv
    <3>2. Watching' /\ Listed'
      BY <2>2, <3>1 DEF Watching, Listed, Auditing
    <3>3. Dormant'
      <4>1. CASE ready
        BY <2>1, <2>2, <2>3, <2>4, <3>1, <4>1 DEF Dormant
      <4>2. CASE ~ready
        BY <2>1, <2>2, <2>3, <2>4, <3>1, <4>2 DEF Dormant
      <4>3. QED BY <4>1, <4>2
    <3>4. QED BY <3>2, <3>3
  <2>7. QED BY <2>5, <2>6, Zenon DEF SafeInv
<1>3. CASE FreeCallbacks
  <2>1. UNCHANGED <<recursive, auditor, worker, cursor>> /\ call[Controller] = "callbacks"
    BY <1>3 DEF FreeCallbacks, Break, auditorVars
  <2>2. \/ call' = [call EXCEPT ![Controller] = "idle"] /\ arg' = [arg EXCEPT ![Controller] = Null]
        \/ UNCHANGED <<call, arg>>
    BY <1>3 DEF FreeCallbacks, Break, auditorVars, Returns, Calls
  <2>3. CASE UNCHANGED <<call, arg>>
    BY <2>1, <2>3
    DEF auditor, SafeInv, Watching, Auditing, Listed, Dormant, Closing, ClosingCall
  <2>4. CASE call' = [call EXCEPT ![Controller] = "idle"] /\ arg' = [arg EXCEPT ![Controller] = Null]
    <3>1. /\ call'[Controller] = "idle" /\ arg'[Controller] = Null
          /\ \A c \in Clients : c # Controller => call'[c] = call[c]
      BY <1>0, <2>4 DEF CallType
    <3>2. Closing'
      BY <3>1 DEF Closing, ClosingCall
    <3>3. ASSUME ~raced' PROVE Watching' /\ Listed' /\ Dormant'
      <4>1. Watching /\ Listed /\ Dormant
        BY <2>1, <3>3, Zenon DEF SafeInv, auditor
      <4>2. Watching' /\ Listed'
        BY <2>1, <4>1 DEF auditor, Watching, Listed, Auditing
      <4>3. Dormant'
        BY <2>1, <3>1, <4>1 DEF auditor, Dormant
      <4>4. QED BY <4>2, <4>3
    <3>4. QED BY <3>2, <3>3, Zenon DEF SafeInv
  <2>5. QED BY <2>2, <2>3, <2>4
<1>4. QED BY <1>1, <1>2, <1>3 DEF Whole

LEMMA CallbacksApart == ASSUME NEW c \in Clients, Callbacks(c) PROVE UNCHANGED auditorVars
BY DEF Callbacks, Register, Unregister, UnregisterLost, Break, RunAllChecks, NotifyLock, NotifyOne,
       NotifyUnlock, CountDetection, ResetStats, SetEnabled

LEMMA AuditorPart ==
    ASSUME TypeInv, SafeInv, [Next]_advancedVars
    PROVE  TypeInv' /\ SafeInv'
<1>1. CASE Whole
  BY <1>1, WholeType, WholeSafe
<1>2. CASE ~Whole
  <2>1. [AuditorNext]_auditorVars
    BY <1>2, CallbacksApart DEF Next, advancedVars
  <2>2. QED BY <2>1, TypeStep, SafeStep
<1>3. QED BY <1>1, <1>2

LEMMA AuditorStart == AuditorInit => TypeInv /\ SafeInv
<1>1. AuditorInit => SafeInv
  BY AuditorAssumption
  DEF AuditorAssumption, Reasons, AuditorInit, SafeInv, Watching, Auditing, Listed, Dormant, Closing, ClosingCall
<1>2. QED BY <1>1, TypeInit

(* The same when the auditor is started and stopped with all the others:     *)
(* advanced_init initialises it without a look at the calls under way, and   *)
(* advanced_shutdown frees its regions before the callbacks.                *)
THEOREM AuditsSafeInAll == Spec => []AuditSafe
<1>1. Init => TypeInv /\ SafeInv
  BY AuditorStart DEF Init
<1>2. SafeInv => AuditSafe
  BY DEF SafeInv, Watching, Auditing, Listed, AuditSafe
<1>3. QED BY <1>1, <1>2, AuditorPart, PTL DEF Spec

-----------------------------------------------------------------------------
(* The list of callbacks *)

Depth == Cardinality(Nodes)

(* A set of numbers has a smallest one.                                     *)
LEMMA Smallest ==
    ASSUME NEW I, I \subseteq Nat, I # {}
    PROVE  \E m \in I : \A j \in I : m <= j
<1> DEFINE Less == {p \in Nat \X Nat : p[1] < p[2]}
<1>1. IsWellFoundedOn(Less, Nat)
  BY NatLessThanWellFounded DEF OpToRel
<1>2. PICK m \in I : \A j \in I : ~(<<j, m>> \in Less)
  <2> HIDE DEF Less
  <2> QED BY <1>1, WFMin, Zenon
<1>3. \A j \in I : m <= j
  <2> SUFFICES ASSUME NEW j \in I PROVE m <= j
    OBVIOUS
  <2>1. <<j, m>> \notin Less /\ j \in Nat /\ m \in Nat
    BY <1>2
  <2> QED BY <2>1
<1>4. QED BY <1>3

(* What the list and the notifications are made of.                         *)
ListTypes == /\ head \in Nodes \cup {Null} /\ next \in [Nodes -> Nodes \cup {Null}]
             /\ live \subseteq Nodes /\ handles \in Seq(Nodes)
TurnTypes == /\ turn \in [Clients -> {"idle", "wait", "notify", "count"}]
             /\ visit \in [Clients -> Nodes \cup {Null}]
             /\ holder \in Clients \cup {Null} /\ told \in Seq(Nodes)
BitTypes  == /\ inited \in BOOLEAN /\ enabled \in BOOLEAN /\ detected \in BOOLEAN
             /\ clipped \in BOOLEAN /\ broken \in BOOLEAN

(* The links run through the handles, newest first, and end.                *)
Chained ==
    /\ \A j, k \in 1..Len(handles) : handles[j] = handles[k] => j = k
    /\ \A k \in 1..Len(handles) : handles[k] \in live
    /\ head = IF Len(handles) = 0 THEN Null ELSE handles[1]
    /\ \A k \in 1..Len(handles) :
          next[handles[k]] = IF k = Len(handles) THEN Null ELSE handles[k + 1]

(* A notification under way has called the first of them and is at the next. *)
Telling == \A c \in Clients : turn[c] = "notify" =>
    /\ Len(told) <= Len(handles) /\ \A k \in 1..Len(told) : told[k] = handles[k]
    /\ visit[c] = IF Len(told) = Len(handles) THEN Null ELSE handles[Len(told) + 1]

(* It holds the mutex, and nobody notifies while everything is shut down.    *)
Held == /\ \A c \in Clients : turn[c] = "notify" => holder = c
        /\ arg[Controller] = "advanced" => \A c \in Clients : turn[c] = "idle"

Kept == ~clipped => ~broken /\ Chained /\ Telling

LEMMA DepthNat == Depth \in Nat
BY NodesAssumption, FS_CardinalityType DEF NodesAssumption, Depth

(* A sequence without repetitions is no longer than what it is made of.      *)
LEMMA NoLonger ==
    ASSUME NEW S, IsFiniteSet(S), NEW s \in Seq(S), \A j, k \in 1..Len(s) : s[j] = s[k] => j = k
    PROVE  /\ Cardinality(Range(s)) = Len(s) /\ Len(s) <= Cardinality(S)
<1>1. Len(s) \in Nat /\ DOMAIN s = 1..Len(s) /\ s \in [1..Len(s) -> S]
  OBVIOUS
<1>2. Range(s) \subseteq S /\ s \in [1..Len(s) -> Range(s)]
  BY <1>1 DEF Range
<1>3. s \in Bijection(1..Len(s), Range(s))
  BY <1>1, <1>2 DEF Bijection, Injection, Surjection, IsInjective, Range
<1>4. ExistsBijection(1..Len(s), Range(s))
  BY <1>3 DEF ExistsBijection
<1>5. Cardinality(Range(s)) = Len(s)
  BY <1>1, <1>4, FS_CountingElements
<1>6. Cardinality(Range(s)) <= Cardinality(S)
  BY <1>2, FS_Subset
<1>7. QED BY <1>5, <1>6

(* The walk along the links passes the handles in their order.               *)
LEMMA WalkPasses ==
    ASSUME ListTypes, Chained
    PROVE  /\ Len(handles) \in Nat /\ Len(handles) <= Depth
           /\ \A k \in 0..Depth : Walk[k] = IF k < Len(handles) THEN handles[k + 1] ELSE Null
<1> DEFINE L == Len(handles)
           Step(f, k) == IF k = 0 THEN head ELSE IF f[k - 1] = Null THEN Null ELSE next[f[k - 1]]
           Follows(f) == f = [k \in 0..Depth |-> Step(f, k)]
           g == [k \in 0..Depth |-> IF k < L THEN handles[k + 1] ELSE Null]
<1>0. L \in Nat /\ \A k \in 1..L : handles[k] \in Nodes /\ handles[k] # Null
  BY NodesAssumption DEF NodesAssumption, ListTypes
<1>1. L <= Depth /\ Depth \in Nat
  BY NodesAssumption, NoLonger, DepthNat DEF NodesAssumption, ListTypes, Chained, Depth
<1> HIDE DEF L
<1>2. \A k \in 0..Depth : g[k] = Step(g, k)
  <2> SUFFICES ASSUME NEW k \in 0..Depth PROVE g[k] = Step(g, k)
    OBVIOUS
  <2>1. CASE k = 0
    BY <1>0, <1>1, <2>1 DEF Chained, L
  <2>2. CASE k # 0
    <3>1. k - 1 \in 0..Depth /\ (k - 1) + 1 = k /\ k - 1 >= 0
      BY <1>1, <2>2
    <3>2. g[k - 1] = (IF k - 1 < L THEN handles[k] ELSE Null)
      BY <3>1
    <3>3. CASE k - 1 < L
      <4>1. k \in 1..L
        BY <1>0, <1>1, <2>2, <3>3
      <4>2. next[handles[k]] = IF k = L THEN Null ELSE handles[k + 1]
        BY <4>1 DEF Chained, L
      <4>3. QED BY <1>0, <1>1, <2>2, <3>2, <3>3, <4>1, <4>2
    <3>4. CASE ~(k - 1 < L)
      BY <1>0, <1>1, <2>2, <3>1, <3>2, <3>4
    <3>5. QED BY <3>3, <3>4
  <2>3. QED BY <2>1, <2>2
<1>3. Follows(g)
  <2>1. g = [k \in 0..Depth |-> g[k]]
    OBVIOUS
  <2> HIDE DEF g
  <2>2. [k \in 0..Depth |-> g[k]] = [k \in 0..Depth |-> Step(g, k)]
    BY <1>2
  <2>3. QED BY <2>1, <2>2
<1>4. Walk = CHOOSE f : Follows(f)
  BY DEF Walk, Depth
<1>5. Follows(Walk)
  <2> HIDE DEF Follows
  <2> QED BY <1>3, <1>4
<1>6. \A k \in 0..Depth : Walk[k] = Step(Walk, k)
  BY <1>5
<1>7. \A k \in 0..Depth : Walk[k] = g[k]
  <2> DEFINE Off == {k \in 0..Depth : Walk[k] # g[k]}
  <2> SUFFICES ASSUME Off # {} PROVE FALSE
    OBVIOUS
  <2>1. Off \subseteq Nat
    BY <1>1
  <2> HIDE DEF g
  <2>2. PICK m0 \in Off : \A k \in Off : m0 <= k
    <3> HIDE DEF Off
    <3> QED BY <2>1, Smallest
  <2>3. m0 \in 0..Depth /\ Walk[m0] # g[m0]
    OBVIOUS
  <2>4. m0 # 0 => m0 - 1 \in 0..Depth /\ Walk[m0 - 1] = g[m0 - 1]
    BY <1>1, <2>2, <2>3
  <2>5. Step(Walk, m0) = Step(g, m0)
    BY <2>4
  <2>6. QED BY <1>2, <1>6, <2>3, <2>5
<1>8. QED BY <1>0, <1>1, <1>7 DEF L

LEMMA WalkEnds ==
    ASSUME ListTypes, Chained
    PROVE  /\ Ends /\ Linked = Range(handles) /\ Linked \subseteq live
           /\ Cardinality(Linked) = Len(handles)
           /\ \A k \in DOMAIN handles : Walk[k - 1] = handles[k]
<1>1. /\ Len(handles) \in Nat /\ Len(handles) <= Depth /\ Depth \in Nat
      /\ \A k \in 0..Depth : Walk[k] = IF k < Len(handles) THEN handles[k + 1] ELSE Null
      /\ DOMAIN handles = 1..Len(handles)
  BY WalkPasses, DepthNat DEF ListTypes
<1>2. Ends
  BY <1>1 DEF Ends, Depth
<1>3. \A k \in DOMAIN handles : k - 1 \in 0..Depth /\ Walk[k - 1] = handles[k]
  <2> SUFFICES ASSUME NEW k \in 1..Len(handles) PROVE k - 1 \in 0..Depth /\ Walk[k - 1] = handles[k]
    BY <1>1
  <2>1. k - 1 \in 0..Depth /\ k - 1 < Len(handles) /\ (k - 1) + 1 = k
    BY <1>1
  <2>2. QED BY <1>1, <2>1
<1>4. \A k \in DOMAIN handles : handles[k] # Null /\ handles[k] \in live
  <2>1. \A k \in 1..Len(handles) : handles[k] \in Nodes
    BY DEF ListTypes
  <2>2. \A k \in 1..Len(handles) : handles[k] \in live
    BY DEF Chained
  <2>3. QED BY <1>1, <2>1, <2>2, NodesAssumption DEF NodesAssumption
<1>5. Linked = Range(handles)
  <2>1. ASSUME NEW n \in Range(handles) PROVE n \in Linked
    <3>1. PICK k \in DOMAIN handles : n = handles[k]
      BY DEF Range
    <3>2. QED BY <1>3, <1>4, <3>1 DEF Linked, Passed, Depth
  <2>2. ASSUME NEW n \in Linked PROVE n \in Range(handles)
    <3>1. PICK j \in 0..Depth : Walk[j] = n /\ n # Null
      BY DEF Linked, Passed, Depth
    <3>2. j + 1 \in DOMAIN handles /\ n = handles[j + 1]
      BY <1>1, <3>1
    <3>3. QED BY <3>2 DEF Range
  <2>3. QED BY <2>1, <2>2
<1>6. Linked \subseteq live
  BY <1>4, <1>5 DEF Range
<1>7. Cardinality(Linked) = Len(handles)
  BY <1>5, NoLonger, NodesAssumption DEF NodesAssumption, ListTypes, Chained
<1>8. QED BY <1>2, <1>3, <1>5, <1>6, <1>7

LEMMA NobodyTells ==
    ASSUME Held, holder = Null PROVE \A c \in Clients : turn[c] # "notify"
BY NodesAssumption DEF NodesAssumption, Held

CallbackTypes == ListTypes /\ TurnTypes /\ BitTypes
CallbackInv == CallbackTypes /\ Held /\ Kept

(* Nothing but the list changes when a callback is registered or taken out.  *)
LEMMA RegisterKeeps ==
    ASSUME CallbackInv, NEW c \in Clients, NEW n \in Nodes, Register(c, n)
    PROVE  ListTypes' /\ Kept'
<1>1. /\ holder = Null /\ n \notin live /\ head' = n /\ next' = [next EXCEPT ![n] = head]
      /\ live' = live \cup {n} /\ handles' = <<n>> \o handles
      /\ UNCHANGED <<clipped, broken, checks>>
  BY DEF Register
<1>2. ListTypes
  BY DEF CallbackInv, CallbackTypes
<1>3. /\ Len(handles) \in Nat /\ Len(handles') = Len(handles) + 1 /\ handles' \in Seq(Nodes)
      /\ handles'[1] = n /\ \A k \in 1..Len(handles) : handles'[k + 1] = handles[k]
  BY <1>1, <1>2, Prefixed DEF ListTypes
<1>4. ListTypes'
  BY <1>1, <1>2, <1>3 DEF ListTypes
<1>5. ASSUME ~clipped PROVE ~broken' /\ Chained' /\ Telling'
  <2>1. ~broken /\ Chained
    BY <1>5, Zenon DEF CallbackInv, Kept
  <2>2. Telling'
    BY <1>1, NobodyTells DEF CallbackInv, Telling, checks
  <2>3. \A k \in 1..Len(handles') : k = 1 \/ (k - 1 \in 1..Len(handles) /\ handles'[k] = handles[k - 1])
    BY <1>3
  <2>4. \A k \in 1..Len(handles) : handles[k] \in live /\ handles[k] # n /\ handles[k] \in Nodes
    BY <1>1, <1>2, <2>1 DEF Chained, ListTypes
  <2>5. \A j, k \in 1..Len(handles') : handles'[j] = handles'[k] => j = k
    <3> SUFFICES ASSUME NEW j \in 1..Len(handles'), NEW k \in 1..Len(handles'), handles'[j] = handles'[k]
                 PROVE  j = k
      OBVIOUS
    <3>1. CASE j = 1 \/ k = 1
      BY <1>3, <2>3, <2>4, <3>1
    <3>2. CASE j # 1 /\ k # 1
      <4>1. j - 1 = k - 1
        BY <2>1, <2>3, <3>2 DEF Chained
      <4>2. QED BY <1>3, <4>1
    <3>3. QED BY <3>1, <3>2
  <2>6. \A k \in 1..Len(handles') : handles'[k] \in live'
    BY <1>1, <1>3, <2>3, <2>4
  <2>7. head' = IF Len(handles') = 0 THEN Null ELSE handles'[1]
    BY <1>1, <1>3
  <2>8. ASSUME NEW k \in 1..Len(handles')
        PROVE  next'[handles'[k]] = IF k = Len(handles') THEN Null ELSE handles'[k + 1]
    <3>1. CASE k = 1
      <4>1. next'[n] = head
        BY <1>1, <1>2 DEF ListTypes
      <4>2. CASE Len(handles) = 0
        BY <1>3, <2>1, <3>1, <4>1, <4>2 DEF Chained
      <4>3. CASE Len(handles) # 0
        <5>1. handles'[1 + 1] = handles[1] /\ 1 # Len(handles')
          BY <1>3, <4>3
        <5>2. QED BY <1>3, <2>1, <3>1, <4>1, <4>3, <5>1 DEF Chained
      <4>4. QED BY <4>2, <4>3
    <3>2. CASE k # 1
      <4>1. k - 1 \in 1..Len(handles) /\ handles'[k] = handles[k - 1]
        BY <2>3, <3>2
      <4>2. next'[handles'[k]] = next[handles[k - 1]]
        BY <1>1, <1>2, <2>4, <4>1 DEF ListTypes
      <4>3. next[handles[k - 1]] = IF k - 1 = Len(handles) THEN Null ELSE handles[(k - 1) + 1]
        BY <2>1, <4>1 DEF Chained
      <4>4. k - 1 = Len(handles) <=> k = Len(handles')
        BY <1>3, <4>1
      <4>5. k # Len(handles') => handles'[k + 1] = handles[k] /\ (k - 1) + 1 = k
        BY <1>3, <4>1
      <4>6. QED BY <4>2, <4>3, <4>4, <4>5
    <3>3. QED BY <3>1, <3>2
  <2>9. Chained'
    BY <2>5, <2>6, <2>7, <2>8 DEF Chained
  <2>10. ~broken'
    BY <1>1, <2>1, Zenon
  <2>11. QED BY <2>2, <2>9, <2>10
<1>6. Kept'
  BY <1>1, <1>5, Zenon DEF Kept
<1>7. QED BY <1>4, <1>6

(* Without its first occurrence of e, a sequence is the rest of it.          *)
LEMMA FirstRemoved ==
    ASSUME NEW S, NEW s \in Seq(S), NEW e
    PROVE  /\ RemoveFirst(s, e) \in Seq(S)
           /\ \A k \in 1..Len(s) :
                 s[k] = e /\ (\A j \in 1..Len(s) : s[j] = e => j = k) => RemoveFirst(s, e) = RemoveAt(s, k)
<1> DEFINE I == {k \in 1..Len(s) : s[k] = e}
<1>1. RemoveFirst(s, e) = IF I # {} THEN RemoveAt(s, SelectInSeq(s, LAMBDA v : v = e)) ELSE s
  BY DEF RemoveFirst
<1>2. SelectInSeq(s, LAMBDA v : v = e) = IF I # {} THEN CHOOSE m \in I : \A k \in I : m <= k ELSE 0
  BY DEF SelectInSeq, Min
<1>3. I # {} => (CHOOSE m \in I : \A k \in I : m <= k) \in I
  <2>1. I \subseteq Nat
    OBVIOUS
  <2> HIDE DEF I
  <2>2. QED BY <2>1, Smallest
<1>4. CASE I = {}
  BY <1>1, <1>4
<1>5. CASE I # {}
  <2> DEFINE m == CHOOSE m \in I : \A k \in I : m <= k
  <2>1. RemoveFirst(s, e) = RemoveAt(s, m) /\ m \in I
    BY <1>1, <1>2, <1>3, <1>5
  <2> HIDE DEF m
  <2>2. m \in 1..Len(s) /\ s[m] = e
    BY <2>1
  <2>3. RemoveAt(s, m) \in Seq(S)
    BY <2>2, Removed
  <2>4. QED BY <2>1, <2>2, <2>3
<1>6. QED BY <1>4, <1>5

(* Whoever is taken out unclipped was the last of the list.                  *)
LEMMA UnregisterKeeps ==
    ASSUME CallbackInv, NEW c \in Clients, NEW h \in Nodes, Unregister(c, h)
    PROVE  ListTypes' /\ clipped' \in BOOLEAN /\ broken' \in BOOLEAN /\ Kept'
<1> DEFINE L == Len(handles)
<1>1. PICK k \in 0..Depth :
          /\ Walk[k] = h /\ h \notin Passed(k - 1)
          /\ IF Passed(k) \subseteq live /\ next[h] \in live \cup {Null}
             THEN /\ Unlinked(k) /\ live' = live \ {next[h]}
                  /\ handles' = RemoveFirst(handles, h)
                  /\ clipped' = (clipped \/ next[h] # Null)
                  /\ UNCHANGED <<auditorVars, inited, broken, checks>>
             ELSE Break
  BY DEF Unregister, Depth
<1>2. ListTypes /\ clipped \in BOOLEAN /\ broken \in BOOLEAN /\ holder = Null
  BY DEF CallbackInv, CallbackTypes, BitTypes, Unregister
<1>3. ASSUME ~clipped
      PROVE  /\ ~broken /\ Chained /\ k + 1 \in 1..L /\ handles[k + 1] = h
             /\ Passed(k) \subseteq live /\ next[h] \in live \cup {Null}
             /\ next[h] = Null => k + 1 = L
  <2>1. ~broken /\ Chained
    BY <1>3, Zenon DEF CallbackInv, Kept
  <2>2. L \in Nat /\ L <= Depth /\ \A j \in 0..Depth : Walk[j] = IF j < L THEN handles[j + 1] ELSE Null
    BY <1>2, <2>1, WalkPasses
  <2>3. h # Null /\ Depth \in Nat
    BY NodesAssumption, DepthNat DEF NodesAssumption
  <2>4. k < L /\ k \in Nat /\ handles[k + 1] = h
    BY <1>1, <2>2, <2>3
  <2>5. k + 1 \in 1..L
    BY <2>2, <2>4
  <2>6. Passed(k) \subseteq live
    <3>1. Linked \subseteq live
      BY <1>2, <2>1, WalkEnds
    <3>2. Passed(k) \subseteq Linked
      <4>1. 0..k \subseteq 0..Depth
        BY <2>2, <2>3, <2>4
      <4>2. QED BY <4>1 DEF Linked, Passed, Depth
    <3>3. QED BY <3>1, <3>2
  <2>7. next[h] = IF k + 1 = L THEN Null ELSE handles[(k + 1) + 1]
    BY <2>1, <2>4, <2>5 DEF Chained
  <2>8. k + 1 # L => handles[(k + 1) + 1] \in live /\ handles[(k + 1) + 1] # Null
    <3> SUFFICES ASSUME k + 1 # L PROVE (k + 1) + 1 \in 1..L
      BY <1>2, <2>1, NodesAssumption DEF NodesAssumption, Chained, ListTypes
    <3>1. QED BY <2>2, <2>4
  <2>9. QED BY <2>1, <2>4, <2>5, <2>6, <2>7, <2>8
<1>4. CASE ~(Passed(k) \subseteq live /\ next[h] \in live \cup {Null})
  <2>1. Break
    BY <1>1, <1>4
  <2>2. clipped
    BY <1>3, <1>4, Zenon
  <2>3. clipped' = clipped /\ broken' = TRUE /\ UNCHANGED <<head, next, live, handles>>
    BY <2>1 DEF Break
  <2>4. QED BY <1>2, <2>2, <2>3 DEF ListTypes, Kept
<1>5. CASE Passed(k) \subseteq live /\ next[h] \in live \cup {Null}
  <2>1. /\ Unlinked(k) /\ live' = live \ {next[h]} /\ handles' = RemoveFirst(handles, h)
        /\ clipped' = (clipped \/ next[h] # Null)
        /\ UNCHANGED <<broken, checks>>
    BY <1>1, <1>5
  <2>2. clipped' \in BOOLEAN /\ broken' \in BOOLEAN
    BY <1>2, <2>1
  <2>3. ListTypes'
    <3>1. handles' \in Seq(Nodes)
      BY <1>2, <2>1, FirstRemoved DEF ListTypes
    <3>2. next[h] \in Nodes \cup {Null}
      BY <1>2 DEF ListTypes
    <3>3. head' \in Nodes \cup {Null} /\ next' \in [Nodes -> Nodes \cup {Null}]
      BY <1>1, <1>2, <2>1, <3>2 DEF Unlinked, ListTypes
    <3>4. QED BY <1>2, <2>1, <3>1, <3>3 DEF ListTypes
  <2>4. ASSUME ~clipped' PROVE ~broken' /\ Chained' /\ Telling'
    <3>1. ~clipped /\ next[h] = Null
      BY <2>1, <2>4, Zenon
    <3>2. ~broken /\ Chained /\ k + 1 = L /\ handles[k + 1] = h /\ k \in Nat /\ L \in Nat /\ L \in 1..L
      BY <1>2, <1>3, <3>1 DEF ListTypes
    <3>3. handles' = RemoveAt(handles, L)
      <4>1. handles[L] = h /\ \A j \in 1..L : handles[j] = h => j = L
        BY <3>2 DEF Chained
      <4>2. QED BY <1>2, <2>1, <3>2, <4>1, FirstRemoved DEF ListTypes
    <3>4. Len(handles') = k /\ \A j \in 1..k : handles'[j] = handles[j]
      <4>1. /\ Len(RemoveAt(handles, L)) = L - 1
            /\ \A j \in 1..(L - 1) : RemoveAt(handles, L)[j] = handles[IF j < L THEN j ELSE j + 1]
        BY <1>2, <3>2, Removed DEF ListTypes
      <4>2. QED BY <3>2, <3>3, <4>1
    <3>5. live' = live
      BY <1>2, <2>1, <3>1, NodesAssumption DEF NodesAssumption, ListTypes
    <3>6. Telling'
      BY <1>2, <2>1, NobodyTells DEF CallbackInv, Telling, checks
    <3>7. CASE k = 0
      <4>1. head' = Null /\ next' = next
        BY <1>1, <2>1, <3>1, <3>7 DEF Unlinked
      <4>2. QED BY <2>1, <3>2, <3>4, <3>5, <3>6, <3>7, <4>1 DEF Chained
    <3>8. CASE k # 0
      <4>1. Walk[k - 1] = handles[k] /\ k \in 1..L
        <5>1. k \in DOMAIN handles
          BY <1>2, <3>2, <3>8 DEF ListTypes
        <5>2. QED BY <1>2, <3>2, <5>1, WalkEnds
      <4>2. head' = head /\ next' = [next EXCEPT ![handles[k]] = Null]
        BY <1>1, <2>1, <3>1, <3>8, <4>1 DEF Unlinked
      <4>3. \A j \in 1..L : handles[j] \in Nodes
        BY <1>2 DEF ListTypes
      <4>4. \A j \in 1..k : next'[handles[j]] = IF j = k THEN Null ELSE next[handles[j]]
        BY <1>2, <3>2, <4>1, <4>2, <4>3 DEF ListTypes, Chained
      <4>5. \A j \in 1..k : j # k => next[handles[j]] = handles[j + 1] /\ j + 1 \in 1..k
        BY <3>2 DEF Chained
      <4>6. \A j \in 1..Len(handles') : next'[handles'[j]] = IF j = Len(handles') THEN Null ELSE handles'[j + 1]
        BY <3>4, <4>4, <4>5
      <4>7. head' = handles'[1] /\ Len(handles') # 0
        BY <3>2, <3>4, <3>8, <4>2 DEF Chained
      <4>8. \A i, j \in 1..Len(handles') : handles'[i] = handles'[j] => i = j
        <5>1. \A i \in 1..k : i \in 1..L
          BY <3>2
        <5>2. QED BY <3>2, <3>4, <5>1 DEF Chained
      <4>10. \A i \in 1..Len(handles') : handles'[i] \in live'
        <5>1. \A i \in 1..k : i \in 1..L
          BY <3>2
        <5>2. QED BY <3>2, <3>4, <3>5, <5>1 DEF Chained
      <4>9. QED BY <2>1, <3>2, <3>6, <4>6, <4>7, <4>8, <4>10 DEF Chained
    <3>9. QED BY <3>7, <3>8
  <2>5. QED BY <2>2, <2>3, <2>4, Zenon DEF Kept
<1>6. QED BY <1>4, <1>5

LEMMA LostKeeps ==
    ASSUME CallbackInv, NEW c \in Clients, NEW h \in Nodes, UnregisterLost(c, h)
    PROVE  clipped /\ Break
<1>1. Break /\ h \in Range(handles) /\ h \notin Linked
  BY DEF UnregisterLost
<1>2. clipped \in BOOLEAN /\ ListTypes
  BY DEF CallbackInv, CallbackTypes, BitTypes
<1>3. ASSUME ~clipped PROVE FALSE
  <2>1. Chained
    BY <1>3, Zenon DEF CallbackInv, Kept
  <2>2. QED BY <1>1, <1>2, <2>1, WalkEnds
<1>4. QED BY <1>1, <1>2, <1>3

-----------------------------------------------------------------------------
(* Notifications *)

(* Where the list stays, so does what is known of it and of those that read  *)
(* it, if they notify as before.                                            *)
LEMMA ListStays ==
    ASSUME CallbackInv, UNCHANGED links
    PROVE  /\ ListTypes' /\ (Chained <=> Chained') /\ inited' = inited /\ clipped' = clipped /\ broken' = broken
           /\ head' = head /\ next' = next /\ handles' = handles
BY DEF CallbackInv, CallbackTypes, ListTypes, links, Chained

LEMMA CheckKeeps ==
    ASSUME CallbackInv, NEW c \in Clients,
           RunAllChecks(c) \/ CountDetection(c) \/ ResetStats(c) \/ (\E b \in BOOLEAN : SetEnabled(c, b))
    PROVE  CallbackInv'
<1>1. /\ UNCHANGED <<auditorVars, links, holder, visit, told>>
      /\ \/ turn' = turn
         \/ turn' = [turn EXCEPT ![c] = "wait"] /\ arg[Controller] # "advanced"
         \/ turn' = [turn EXCEPT ![c] = "idle"] /\ turn[c] = "count"
  BY DEF RunAllChecks, CountDetection, ResetStats, SetEnabled, Doing, Calling, Idle, ClosingCall
<1>2. enabled' \in BOOLEAN /\ detected' \in BOOLEAN
  BY DEF RunAllChecks, CountDetection, ResetStats, SetEnabled, CallbackInv, CallbackTypes, BitTypes
<1>3. TurnTypes'
  BY <1>1 DEF CallbackInv, CallbackTypes, TurnTypes
<1>4. BitTypes'
  BY <1>1, <1>2, ListStays DEF CallbackInv, CallbackTypes, BitTypes
<1>5. \A d \in Clients : (turn'[d] = "notify" => turn[d] = "notify")
  BY <1>1 DEF CallbackInv, CallbackTypes, TurnTypes
<1>6. Held'
  BY <1>1, <1>5 DEF CallbackInv, CallbackTypes, TurnTypes, Held, auditorVars
<1>7. Telling => Telling'
  BY <1>1, <1>5, ListStays DEF Telling
<1>8. Kept'
  BY <1>1, <1>7, ListStays, Zenon DEF CallbackInv, Kept
<1>9. QED BY <1>1, <1>3, <1>4, <1>6, <1>8, ListStays DEF CallbackInv, CallbackTypes

LEMMA LockKeeps == ASSUME CallbackInv, NEW c \in Clients, NotifyLock(c) PROVE CallbackInv'
<1>1. /\ UNCHANGED <<auditorVars, links, enabled, detected>> /\ turn[c] = "wait" /\ holder = Null
      /\ turn' = [turn EXCEPT ![c] = "notify"] /\ holder' = c
      /\ visit' = [visit EXCEPT ![c] = head] /\ told' = <<>>
  BY DEF NotifyLock, Doing
<1>2. /\ TurnTypes /\ ListTypes /\ BitTypes /\ Held
      /\ \A d \in Clients : turn[d] # "notify"
  BY <1>1, NobodyTells DEF CallbackInv, CallbackTypes
<1>3. TurnTypes' /\ BitTypes'
  <2>1. TurnTypes'
    BY <1>1, <1>2 DEF TurnTypes, ListTypes
  <2>2. BitTypes'
    BY <1>1, <1>2, ListStays DEF BitTypes
  <2>3. QED BY <2>1, <2>2
<1>4. Held'
  BY <1>1, <1>2 DEF TurnTypes, Held, auditorVars
<1>5. ASSUME Chained PROVE Telling'
  <2>1. /\ \A d \in Clients : turn'[d] = "notify" => d = c
        /\ visit'[c] = head /\ Len(told') = 0
    BY <1>1, <1>2 DEF TurnTypes
  <2>2. head = (IF 0 = Len(handles) THEN Null ELSE handles[0 + 1]) /\ 0 <= Len(handles)
    BY <1>2, <1>5 DEF Chained, ListTypes
  <2>3. QED BY <2>1, <2>2, ListStays, <1>1 DEF Telling
<1>6. Kept'
  BY <1>1, <1>5, ListStays, Zenon DEF CallbackInv, Kept
<1>7. QED BY <1>1, <1>3, <1>4, <1>6, ListStays DEF CallbackInv, CallbackTypes

LEMMA UnlockKeeps == ASSUME CallbackInv, NEW c \in Clients, NotifyUnlock(c) PROVE CallbackInv'
<1>1. /\ UNCHANGED <<auditorVars, links, enabled, detected, visit>> /\ turn[c] = "notify"
      /\ turn' = [turn EXCEPT ![c] = "count"] /\ holder' = Null /\ told' = <<>>
  BY DEF NotifyUnlock, Doing
<1>2. /\ TurnTypes /\ BitTypes /\ Held
      /\ \A d \in Clients : d # c => turn[d] # "notify"
  BY <1>1 DEF CallbackInv, CallbackTypes, Held
<1>3. TurnTypes' /\ BitTypes'
  <2>1. TurnTypes'
    BY <1>1, <1>2 DEF TurnTypes
  <2>2. BitTypes'
    BY <1>1, <1>2, ListStays DEF BitTypes
  <2>3. QED BY <2>1, <2>2
<1>4. \A d \in Clients : turn'[d] # "notify"
  BY <1>1, <1>2 DEF TurnTypes
<1>5. Held' /\ Telling'
  BY <1>1, <1>2, <1>4 DEF TurnTypes, Held, Telling, auditorVars
<1>6. Kept'
  BY <1>1, <1>5, ListStays, Zenon DEF CallbackInv, Kept
<1>7. QED BY <1>1, <1>3, <1>5, <1>6, ListStays DEF CallbackInv, CallbackTypes

LEMMA BreakKeeps == ASSUME CallbackInv, Break, clipped PROVE CallbackInv'
<1>1. /\ UNCHANGED <<auditorVars, inited, head, next, live, handles, clipped, checks>> /\ broken' = TRUE
  BY DEF Break
<1>2. ListTypes' /\ TurnTypes' /\ BitTypes' /\ Held'
  BY <1>1 DEF CallbackInv, CallbackTypes, ListTypes, TurnTypes, BitTypes, Held, checks, auditorVars
<1>3. Kept'
  BY <1>1, Zenon DEF Kept
<1>4. QED BY <1>2, <1>3 DEF CallbackInv, CallbackTypes

(* Where a notification is, there is a callback that is not freed.           *)
LEMMA TellKeeps == ASSUME CallbackInv, NEW c \in Clients, NotifyOne(c) PROVE CallbackInv'
<1>1. /\ turn[c] = "notify" /\ visit[c] # Null
      /\ IF visit[c] \in live /\ Len(told) < Depth
         THEN /\ told' = Append(told, visit[c]) /\ visit' = [visit EXCEPT ![c] = next[visit[c]]]
              /\ UNCHANGED <<auditorVars, links, enabled, detected, holder, turn>>
         ELSE Break
  BY DEF NotifyOne, Depth
<1>2. TurnTypes /\ ListTypes /\ BitTypes /\ Held /\ clipped \in BOOLEAN
  BY DEF CallbackInv, CallbackTypes, BitTypes
<1>3. \A d \in Clients : d # c => turn[d] # "notify"
  BY <1>1, <1>2 DEF Held
<1>4. ASSUME ~clipped
      PROVE  /\ ~broken /\ Chained /\ Telling /\ Len(told) + 1 \in 1..Len(handles)
             /\ visit[c] = handles[Len(told) + 1] /\ visit[c] \in live /\ Len(told) < Depth
  <2>1. ~broken /\ Chained /\ Telling
    BY <1>4, Zenon DEF CallbackInv, Kept
  <2>2. Len(told) \in Nat /\ Len(handles) \in Nat /\ Len(handles) <= Depth /\ Depth \in Nat
    BY <1>2, <2>1, WalkPasses, DepthNat DEF TurnTypes
  <2>3. Len(told) <= Len(handles) /\ Len(told) # Len(handles) /\ visit[c] = handles[Len(told) + 1]
    BY <1>1, <2>1 DEF Telling
  <2>4. Len(told) + 1 \in 1..Len(handles) /\ Len(told) < Depth
    BY <2>2, <2>3
  <2>5. visit[c] \in live
    BY <2>1, <2>3, <2>4 DEF Chained
  <2>6. QED BY <2>1, <2>3, <2>4, <2>5
<1>5. CASE ~(visit[c] \in live /\ Len(told) < Depth)
  <2>1. Break
    BY <1>1, <1>5
  <2>2. clipped
    BY <1>4, <1>5, Zenon
  <2>3. QED BY <2>1, <2>2, BreakKeeps
<1>6. CASE visit[c] \in live /\ Len(told) < Depth
  <2>1. /\ told' = Append(told, visit[c]) /\ visit' = [visit EXCEPT ![c] = next[visit[c]]]
        /\ UNCHANGED <<auditorVars, links, enabled, detected, holder, turn>>
    BY <1>1, <1>6
  <2>2. visit[c] \in Nodes /\ next[visit[c]] \in Nodes \cup {Null}
    BY <1>2, <1>6 DEF ListTypes
  <2>3. TurnTypes'
    BY <1>2, <2>1, <2>2 DEF TurnTypes
  <2>4. BitTypes'
    BY <1>2, <2>1, ListStays DEF BitTypes
  <2>5. Held'
    BY <1>2, <2>1 DEF Held, auditorVars
  <2>6. ASSUME ~clipped PROVE Telling'
    <3>1. /\ Chained /\ Telling /\ Len(told) + 1 \in 1..Len(handles)
          /\ visit[c] = handles[Len(told) + 1]
      BY <1>4, <2>6
    <3> DEFINE k == Len(told) + 1
    <3>2. /\ Len(told) \in Nat /\ Len(told') = k /\ told'[k] = visit[c]
          /\ \A j \in 1..Len(told) : told'[j] = told[j]
      BY <1>2, <2>1, <2>2 DEF TurnTypes
    <3>3. visit'[c] = next[handles[k]]
      BY <1>2, <2>1, <3>1 DEF TurnTypes
    <3>4. next[handles[k]] = IF k = Len(handles) THEN Null ELSE handles[k + 1]
      BY <3>1 DEF Chained
    <3>5. handles' = handles /\ \A j \in 1..Len(told) : told[j] = handles[j]
      BY <1>1, <2>1, <3>1, ListStays DEF Telling
    <3>6. \A j \in 1..k : told'[j] = handles[j]
      <4>1. \A j \in 1..k : j \in 1..Len(told) \/ j = k
        BY <3>2
      <4>2. QED BY <3>1, <3>2, <3>5, <4>1
    <3>7. k <= Len(handles)
      BY <3>1, <3>2
    <3>8. \A d \in Clients : turn'[d] = "notify" => d = c
      BY <1>3, <2>1
    <3> HIDE DEF k
    <3>9. QED BY <3>2, <3>3, <3>4, <3>5, <3>6, <3>7, <3>8 DEF Telling
  <2>7. Kept'
    <3>1. ~clipped => ~broken /\ Chained
      BY <1>4, Zenon
    <3>2. QED BY <2>1, <2>6, <3>1, ListStays, Zenon DEF Kept
  <2>8. QED BY <2>1, <2>3, <2>4, <2>5, <2>7, ListStays DEF CallbackInv, CallbackTypes
<1>7. QED BY <1>5, <1>6

LEMMA CallbacksKeep ==
    ASSUME CallbackInv, NEW c \in Clients, Callbacks(c)
    PROVE  CallbackInv'
<1>1. ASSUME NEW n \in Nodes, Register(c, n) \/ Unregister(c, n) PROVE CallbackInv'
  <2>1. CASE Break
    <3>1. CASE Register(c, n)
      <4>1. broken' = broken /\ live' # live
        BY <3>1 DEF Register
      <4>2. QED BY <2>1, <4>1 DEF Break
    <3>2. CASE Unregister(c, n)
      <4>1. ListTypes' /\ clipped' \in BOOLEAN /\ broken' \in BOOLEAN /\ Kept'
        BY <3>2, UnregisterKeeps
      <4>2. UNCHANGED <<auditorVars, inited, checks>>
        BY <2>1 DEF Break
      <4>3. QED BY <4>1, <4>2 DEF CallbackInv, CallbackTypes, TurnTypes, BitTypes, Held, checks, auditorVars
    <3>3. QED BY <1>1, <3>1, <3>2
  <2>2. CASE ~Break
    <3>1. UNCHANGED <<auditorVars, inited, checks>>
      BY <1>1, <2>2 DEF Register, Unregister
    <3>2. ListTypes' /\ Kept'
      BY <1>1, RegisterKeeps, UnregisterKeeps
    <3>3. clipped' \in BOOLEAN /\ broken' \in BOOLEAN
      <4>1. CASE Unregister(c, n)
        BY <4>1, UnregisterKeeps
      <4>2. CASE Register(c, n)
        BY <4>2 DEF Register, CallbackInv, CallbackTypes, BitTypes
      <4>3. QED BY <1>1, <4>1, <4>2
    <3>4. QED BY <3>1, <3>2, <3>3
          DEF CallbackInv, CallbackTypes, TurnTypes, BitTypes, Held, checks, auditorVars
  <2>3. QED BY <2>1, <2>2
<1>2. ASSUME NEW n \in Nodes, UnregisterLost(c, n) PROVE CallbackInv'
  BY <1>2, LostKeeps, BreakKeeps
<1>3. QED BY <1>1, <1>2, CheckKeeps, LockKeeps, TellKeeps, UnlockKeeps, Zenon DEF Callbacks

(* The calls of the auditor itself never close the callbacks.                *)
LEMMA ArgsKept ==
    ASSUME TypeInv, [AuditorNext]_auditorVars, arg'[Controller] = "advanced"
    PROVE  arg[Controller] = "advanced"
<1> USE AuditorAssumption DEF AuditorAssumption, Reasons
<1>1. CallType
  BY DEF TypeInv
<1>2. CASE UNCHANGED arg
  BY <1>2
<1>3. CASE \E c \in Clients : \E place, a : Calls(c, place, a) /\ a # "advanced"
  BY <1>1, <1>3 DEF Calls, CallType
<1>4. UNCHANGED arg \/ \E c \in Clients : \E place, a : Calls(c, place, a) /\ a # "advanced"
  <2>1. CASE UNCHANGED auditorVars
    BY <2>1 DEF auditorVars
  <2>2. ASSUME NEW w \in Workers, Work(w) PROVE UNCHANGED arg
    BY <2>2 DEF Work, TestRunning, Lock, ScanClean, ScanTampered, Count, Unlock
  <2>3. ASSUME NEW c \in Clients, ClientCalls(c)
        PROVE  UNCHANGED arg \/ \E d \in Clients : \E place, a : Calls(d, place, a) /\ a # "advanced"
    <3>1. ASSUME NEW n \in Names, AddCall(c, n) PROVE n # "advanced" /\ \E place : Calls(c, place, n)
      BY <3>1 DEF AddCall
    <3>2. ASSUME NEW n \in Names, RemoveRegion(c, n) PROVE UNCHANGED arg
      BY <3>2 DEF RemoveRegion
    <3>3. ASSUME AddReset(c) PROVE UNCHANGED arg
      BY <3>3 DEF AddReset, Reset
    <3>4. ASSUME NEW b \in Blocks, Link(c, b) PROVE Null # "advanced" /\ Calls(c, "idle", Null)
      BY <3>4 DEF Link, Returns
    <3>5. QED BY <2>3, <3>1, <3>2, <3>3, <3>4, Zenon DEF ClientCalls
  <2>4. ASSUME Control
        PROVE  UNCHANGED arg \/ \E d \in Clients : \E place, a : Calls(d, place, a) /\ a # "advanced"
    <3>1. CASE StartCall
      BY <3>1 DEF StartCall
    <3>2. CASE StartReset
      BY <3>2 DEF StartReset, Reset
    <3>3. CASE Launch \/ LaunchFails
      BY <3>3 DEF Launch, LaunchFails, Returns
    <3>4. CASE Stop \/ Shutdown
      BY <3>4 DEF Stop, Shutdown, StopCall
    <3>5. CASE Join \/ FreeRegions
      BY <3>5 DEF Join, FreeRegions, Returns
    <3>6. QED BY <2>4, <3>1, <3>2, <3>3, <3>4, <3>5, Zenon DEF Control
  <2>5. QED BY <2>1, <2>2, <2>3, <2>4, Zenon DEF AuditorNext
<1>5. QED BY <1>2, <1>3, <1>4

LEMMA WholeKeeps ==
    ASSUME TypeInv, SafeInv, CallbackInv, Whole
    PROVE  CallbackInv'
<1>0. /\ ListTypes /\ TurnTypes /\ BitTypes /\ Held /\ Closing /\ CallType
  BY DEF CallbackInv, CallbackTypes, SafeInv, TypeInv
<1>1. CASE InitAll
  <2>1. /\ inited' = TRUE /\ enabled' = TRUE /\ head' = Null /\ handles' = <<>> /\ clipped' = FALSE
        /\ UNCHANGED <<next, live, broken, detected, holder, turn, visit, told, arg>>
        /\ \A c \in Clients : turn[c] = "idle" /\ ~broken
    BY <1>1 DEF InitAll, Calling
  <2>2. ListTypes' /\ TurnTypes' /\ BitTypes' /\ Held'
    <3>1. ListTypes'
      BY <1>0, <2>1 DEF ListTypes
    <3>2. TurnTypes'
      BY <1>0, <2>1 DEF TurnTypes
    <3>3. BitTypes'
      BY <1>0, <2>1, Zenon DEF BitTypes
    <3>4. Held'
      BY <1>0, <2>1 DEF Held
    <3>5. QED BY <3>1, <3>2, <3>3, <3>4
  <2>3. ~broken'
    <3>1. Controller \in Clients
      BY AuditorAssumption DEF AuditorAssumption
    <3>2. QED BY <2>1, <3>1
  <2>4. Chained' /\ Telling'
    BY <2>1 DEF Chained, Telling
  <2>5. QED BY <2>2, <2>3, <2>4 DEF CallbackInv, CallbackTypes, Kept
<1>2. CASE ShutdownAll
  <2>1. UNCHANGED <<links, checks>> /\ \A c \in Clients : turn[c] = "idle"
    BY <1>2 DEF ShutdownAll, Calling
  <2>2. ListTypes' /\ TurnTypes' /\ BitTypes' /\ Held'
    BY <1>0, <2>1 DEF ListTypes, TurnTypes, BitTypes, Held, links, checks
  <2>3. Kept'
    BY <2>1 DEF CallbackInv, Kept, Chained, Telling, links, checks
  <2>4. QED BY <2>2, <2>3 DEF CallbackInv, CallbackTypes
<1>3. CASE FreeCallbacks
  <2>1. CASE Ends /\ Linked \subseteq live
    <3>1. /\ live' = live \ Linked /\ head' = Null /\ handles' = <<>> /\ clipped' = FALSE
          /\ inited' = FALSE /\ arg' = [arg EXCEPT ![Controller] = Null]
          /\ UNCHANGED <<next, broken, checks>> /\ ~broken /\ call[Controller] = "callbacks"
      BY <1>3, <2>1 DEF FreeCallbacks, Returns, Calls
    <3>2. \A c \in Clients : turn[c] = "idle"
      BY <1>0, <3>1 DEF Closing, Held
    <3>3. ListTypes' /\ TurnTypes' /\ BitTypes' /\ Held'
      <4>1. ListTypes'
        BY <1>0, <3>1 DEF ListTypes
      <4>2. TurnTypes'
        BY <1>0, <3>1 DEF TurnTypes, checks
      <4>3. enabled' = enabled /\ detected' = detected
        BY <3>1 DEF checks
      <4>4. BitTypes'
        BY <1>0, <3>1, <4>3, Zenon DEF BitTypes
      <4>5. Held'
        BY <3>1, <3>2 DEF Held, checks
      <4>6. QED BY <4>1, <4>2, <4>4, <4>5
    <3>4. Chained' /\ Telling' /\ ~broken'
      BY <3>1, <3>2 DEF Chained, Telling, checks
    <3>5. QED BY <3>3, <3>4 DEF CallbackInv, CallbackTypes, Kept
  <2>2. CASE ~(Ends /\ Linked \subseteq live)
    <3>1. Break
      BY <1>3, <2>2 DEF FreeCallbacks
    <3>2. clipped
      <4>1. Chained => Ends /\ Linked \subseteq live
        BY <1>0, WalkEnds
      <4>2. QED BY <2>2, <4>1, Zenon DEF CallbackInv, Kept
    <3>3. QED BY <3>1, <3>2, BreakKeeps
  <2>3. QED BY <2>1, <2>2
<1>4. QED BY <1>1, <1>2, <1>3 DEF Whole

LEMMA CallbackStep ==
    ASSUME TypeInv, SafeInv, CallbackInv, [Next]_advancedVars
    PROVE  CallbackInv'
<1>1. ASSUME [AuditorNext]_auditorVars, UNCHANGED <<links, checks>> PROVE CallbackInv'
  <2>1. arg'[Controller] = "advanced" => arg[Controller] = "advanced"
    BY <1>1, ArgsKept
  <2>2. ListTypes' /\ TurnTypes' /\ BitTypes' /\ Held'
    BY <1>1, <2>1 DEF CallbackInv, CallbackTypes, ListTypes, TurnTypes, BitTypes, Held, links, checks
  <2>3. Kept'
    BY <1>1 DEF CallbackInv, Kept, Chained, Telling, links, checks
  <2>4. QED BY <2>2, <2>3 DEF CallbackInv, CallbackTypes
<1>2. CASE Whole
  BY <1>2, WholeKeeps
<1>3. CASE \E c \in Clients : Callbacks(c)
  BY <1>3, CallbacksKeep
<1>4. CASE UNCHANGED advancedVars
  BY <1>1, <1>4 DEF advancedVars
<1>5. QED BY <1>1, <1>2, <1>3, <1>4 DEF Next

LEMMA CallbackStart == Init => CallbackInv
<1> SUFFICES ASSUME Init PROVE CallbackInv
  OBVIOUS
<1> USE AuditorAssumption, NodesAssumption DEF AuditorAssumption, NodesAssumption, Init
<1>1. ListTypes /\ TurnTypes /\ BitTypes
  <2>1. ListTypes
    BY DEF ListTypes
  <2>2. TurnTypes
    BY DEF TurnTypes
  <2>3. BitTypes
    BY Zenon DEF BitTypes
  <2>4. QED BY <2>1, <2>2, <2>3
<1>2. Held
  BY DEF Held
<1>3. Chained /\ Telling /\ ~broken
  BY DEF Chained, Telling
<1>4. QED BY <1>1, <1>2, <1>3 DEF CallbackInv, CallbackTypes, Kept

(* What the callbacks and the notifications work with keeps its type.        *)
THEOREM AdvancedTypeCorrect == Spec => []TypeOK
<1>1. Init => TypeInv /\ SafeInv /\ CallbackInv
  BY AuditorStart, CallbackStart DEF Init
<1>2. TypeInv /\ CallbackInv => TypeOK
  <2>1. TypeInv => AuditorTypeOK
    BY DEF TypeInv, AuditorTypeOK, ListType, FlagType, WorkType, CallType, Region, Places, Stages
  <2>2. QED BY <2>1 DEF CallbackInv, CallbackTypes, ListTypes, TurnTypes, BitTypes, TypeOK
<1>3. QED BY <1>1, <1>2, AuditorPart, CallbackStep, PTL DEF Spec

(* Until a callback with an older one behind it is unregistered, the list is *)
(* the callbacks registered, newest first, none of them freed, and every     *)
(* notification calls each of them once, for any number of callbacks and     *)
(* clients.                                                                 *)
THEOREM CallbacksCalled == Spec => []CallbacksKept
<1>1. Init => TypeInv /\ SafeInv /\ CallbackInv
  BY AuditorStart, CallbackStart DEF Init
<1>2. CallbackInv => CallbacksKept
  <2> SUFFICES ASSUME CallbackInv, ~clipped PROVE CallbacksKept
    BY Zenon DEF CallbacksKept
  <2>1. ListTypes /\ TurnTypes /\ ~broken /\ Chained /\ Telling
    BY Zenon DEF CallbackInv, CallbackTypes, Kept
  <2>2. ASSUME NEW c \in Clients, turn[c] = "notify", visit[c] = Null PROVE told = handles
    <3>1. \A k \in 1..Len(handles) : handles[k] # Null
      <4>1. \A k \in 1..Len(handles) : handles[k] \in Nodes
        BY <2>1 DEF ListTypes
      <4>2. QED BY <4>1, NodesAssumption DEF NodesAssumption
    <3>2. Len(told) <= Len(handles) /\ Len(told) \in Nat /\ Len(handles) \in Nat
      BY <2>1, <2>2 DEF Telling, ListTypes, TurnTypes
    <3>3. Len(told) = Len(handles)
      <4>1. Len(told) # Len(handles) => Len(told) + 1 \in 1..Len(handles)
        BY <3>2
      <4>2. QED BY <2>1, <2>2, <3>1, <4>1 DEF Telling
    <3>4. \A k \in 1..Len(handles) : told[k] = handles[k]
      BY <2>1, <2>2, <3>3 DEF Telling
    <3>5. QED BY <2>1, <3>3, <3>4 DEF ListTypes, TurnTypes
  <2>3. QED BY <2>1, <2>2, WalkEnds DEF CallbacksKept
<1>3. QED BY <1>1, <1>2, AuditorPart, CallbackStep, PTL DEF Spec

-----------------------------------------------------------------------------
(* The detectors *)

LEMMA ScanTypeInit == ScanInit => ScanTypeOK
<1> SUFFICES ASSUME ScanInit PROVE ScanTypeOK
  OBVIOUS
<1>1. stage \in {"scan", "nops", "check", "done"}
  BY DEF ScanInit
<1>2. offset \in Nat /\ nops \in Nat /\ hooks \in Nat /\ sled \in BOOLEAN
  BY DEF ScanInit
<1>3. QED BY <1>1, <1>2 DEF ScanInit, ScanTypeOK

LEMMA ScanTypeStep == ScanTypeOK /\ [ScanNext]_scanVars => ScanTypeOK'
<1> SUFFICES ASSUME ScanTypeOK, [ScanNext]_scanVars PROVE ScanTypeOK'
  OBVIOUS
<1> USE DEF ScanTypeOK
<1>1. CASE ScanByte
  BY <1>1 DEF ScanByte
<1>2. CASE EnterSled
  BY <1>2 DEF EnterSled
<1>3. CASE CountNop
  BY <1>3 DEF CountNop
<1>4. CASE LeaveSled
  BY <1>4 DEF LeaveSled
<1>5. CASE EndScan
  BY <1>5 DEF EndScan
<1>6. CASE CheckByte
  <2>1. nops' \in Nat
    BY <1>6 DEF CheckByte
  <2>2. sled' \in BOOLEAN
    BY <1>6 DEF CheckByte
  <2>3. stage' \in {"scan", "nops", "check", "done"}
    BY <1>6 DEF CheckByte
  <2>4. QED BY <1>6, <2>1, <2>2, <2>3 DEF CheckByte
<1>7. CASE EndCheck
  BY <1>7 DEF EndCheck
<1>8. CASE UNCHANGED scanVars
  BY <1>8 DEF scanVars
<1>9. QED BY <1>1, <1>2, <1>3, <1>4, <1>5, <1>6, <1>7, <1>8 DEF ScanNext

-----------------------------------------------------------------------------
(* Counting *)

(* hooks counts what begins before the place k, but for jumps behind NOPs.  *)
Hooked(k)  == {j \in Starts(k) : code[j] \in Jumps}
Counted(k) == hooks = Cardinality(Hooked(k)) + Cardinality(Sleds(k))

(* A run of NOPs that goes on is counted by where it began.                 *)
Began == offset - nops

CountInv ==
    /\ stage = "scan" =>
          /\ nops = 0 /\ Counted(offset)
          /\ offset <= size => ~Behind(offset)
    /\ stage = "nops" =>
          /\ Began \in 0..(size - Reach - 1) /\ offset <= size
          /\ ~Behind(Began) /\ code[Began] = "nop" /\ Counted(Began)
          /\ \A m \in Began..(offset - 1) : code[m] = "nop"
    /\ stage \in {"check", "done"} => Counted(size)

LEMMA FiniteCounts ==
    ASSUME ScanTypeOK, NEW k
    PROVE  IsFiniteSet(Hooked(k)) /\ IsFiniteSet(Sleds(k))
<1>1. IsFiniteSet(0..(size - Reach - 1))
  BY DetectorsAssumption, FS_Interval DEF DetectorsAssumption, ScanTypeOK
<1>2. Hooked(k) \subseteq 0..(size - Reach - 1) /\ Sleds(k) \subseteq 0..(size - Reach - 1)
  BY DEF Hooked, Sleds, Starts, Scanned
<1>3. QED BY <1>1, <1>2, FS_Subset

(* Going on from j to k, where only j is a new start, counts j.             *)
LEMMA OneMore ==
    ASSUME ScanTypeOK, NEW j, NEW k, j \notin Starts(j), Starts(k) = Starts(j) \cup {j}
    PROVE  /\ Cardinality(Hooked(k)) = Cardinality(Hooked(j)) + (IF code[j] \in Jumps THEN 1 ELSE 0)
           /\ Cardinality(Sleds(k)) = Cardinality(Sleds(j)) + (IF LongRun(j) THEN 1 ELSE 0)
           /\ Cardinality(Hooked(j)) \in Nat /\ Cardinality(Sleds(j)) \in Nat
<1>1. /\ IsFiniteSet(Hooked(j)) /\ IsFiniteSet(Sleds(j))
      /\ Cardinality(Hooked(j)) \in Nat /\ Cardinality(Sleds(j)) \in Nat
  BY FiniteCounts, FS_CardinalityType
<1>2. j \notin Hooked(j) /\ j \notin Sleds(j)
  BY DEF Hooked, Sleds
<1>3. Hooked(k) = IF code[j] \in Jumps THEN Hooked(j) \cup {j} ELSE Hooked(j)
  BY DEF Hooked
<1>4. Sleds(k) = IF LongRun(j) THEN Sleds(j) \cup {j} ELSE Sleds(j)
  BY DEF Sleds
<1>5. Cardinality(Hooked(k)) = Cardinality(Hooked(j)) + (IF code[j] \in Jumps THEN 1 ELSE 0)
  <2>1. CASE code[j] \in Jumps
    BY <1>1, <1>2, <1>3, <2>1, FS_AddElement
  <2>2. CASE code[j] \notin Jumps
    BY <1>1, <1>3, <2>2
  <2>3. QED BY <2>1, <2>2
<1>6. Cardinality(Sleds(k)) = Cardinality(Sleds(j)) + (IF LongRun(j) THEN 1 ELSE 0)
  <2>1. CASE LongRun(j)
    BY <1>1, <1>2, <1>4, <2>1, FS_AddElement
  <2>2. CASE ~LongRun(j)
    BY <1>1, <1>4, <2>2
  <2>3. QED BY <2>1, <2>2
<1>7. QED BY <1>1, <1>5, <1>6

(* What is counted depends on the region only.                              *)
LEMMA SameCounts ==
    ASSUME UNCHANGED <<size, code>>, NEW k
    PROVE  /\ Hooked(k)' = Hooked(k) /\ Sleds(k)' = Sleds(k)
           /\ Behind(k)' = Behind(k)
BY DEF Hooked, Sleds, Starts, Scanned, LongRun, Behind

LEMMA CountInit == ScanTypeOK /\ ScanInit => CountInv
<1> SUFFICES ASSUME ScanTypeOK, ScanInit PROVE CountInv
  OBVIOUS
<1> USE DetectorsAssumption DEF DetectorsAssumption
<1>1. ASSUME NEW k \in {offset, size}, k = 0 \/ size < Reach PROVE Counted(k)
  <2>1. Starts(k) = {}
    BY <1>1 DEF Starts, ScanTypeOK, Scanned
  <2>2. Hooked(k) = {} /\ Sleds(k) = {}
    BY <2>1 DEF Hooked, Sleds
  <2>3. QED BY <2>2, FS_EmptySet DEF Counted, ScanInit
<1>2. ~Behind(offset)
  BY DEF Behind, ScanInit
<1>3. QED BY <1>1, <1>2 DEF CountInv, ScanInit

LEMMA CountStep == ScanTypeOK /\ CountInv /\ [ScanNext]_scanVars => CountInv'
<1> SUFFICES ASSUME ScanTypeOK, CountInv, [ScanNext]_scanVars PROVE CountInv'
  OBVIOUS
<1> USE DetectorsAssumption DEF DetectorsAssumption
<1>0. size \in Nat /\ offset \in Nat /\ nops \in Nat /\ hooks \in Nat
  BY DEF ScanTypeOK
<1>1. CASE ScanByte
  <2>1. /\ stage = "scan" /\ offset < size - Reach /\ code[offset] # "nop"
        /\ hooks' = (IF code[offset] \in Jumps THEN hooks + 1 ELSE hooks)
        /\ offset' = offset + 1 /\ UNCHANGED <<size, code, stage, nops>>
    BY <1>1 DEF ScanByte, Scanning
  <2>2. nops = 0 /\ Counted(offset) /\ ~Behind(offset)
    BY <1>0, <2>1 DEF CountInv
  <2>3. offset \notin Starts(offset) /\ Starts(offset + 1) = Starts(offset) \cup {offset}
    BY <1>0, <2>1, <2>2 DEF Starts, Scanned
  <2>4. ~LongRun(offset)
    BY <1>0, <2>1 DEF LongRun
  <2>5. PICK k \in Nat : k = offset + 1
    BY <1>0
  <2>6. /\ Cardinality(Hooked(k)) = Cardinality(Hooked(offset)) + (IF code[offset] \in Jumps THEN 1 ELSE 0)
        /\ Cardinality(Sleds(k)) = Cardinality(Sleds(offset))
        /\ Cardinality(Hooked(offset)) \in Nat /\ Cardinality(Sleds(offset)) \in Nat
    BY <2>3, <2>4, <2>5, OneMore
  <2>7. hooks' = Cardinality(Hooked(k)) + Cardinality(Sleds(k))
    BY <1>0, <2>1, <2>2, <2>6 DEF Counted
  <2>8. Counted(k)' /\ offset' = k
    BY <2>1, <2>5, <2>7, SameCounts DEF Counted
  <2>9. Counted(offset)'
    BY <2>8 DEF Counted
  <2>10. ~Behind(offset)'
    BY <1>0, <2>1 DEF Behind
  <2>11. QED BY <2>1, <2>2, <2>9, <2>10 DEF CountInv
<1>2. CASE EnterSled
  <2>1. /\ stage = "scan" /\ offset < size - Reach /\ code[offset] = "nop"
        /\ stage' = "nops" /\ nops' = 0 /\ UNCHANGED <<size, code, offset, hooks>>
    BY <1>2 DEF EnterSled, Scanning
  <2>2. nops = 0 /\ Counted(offset) /\ ~Behind(offset)
    BY <1>0, <2>1 DEF CountInv
  <2>3. Counted(offset)' /\ ~Behind(offset)'
    BY <2>1, <2>2 DEF Counted, Hooked, Sleds, Starts, Scanned, LongRun, Behind
  <2>4. Began' = offset'
    BY <1>0, <2>1 DEF Began
  <2>5. Counted(Began)' /\ ~Behind(Began)'
    BY <2>3, <2>4 DEF Counted, Behind
  <2>6. QED BY <1>0, <2>1, <2>4, <2>5 DEF CountInv
<1>3. CASE CountNop
  <2>1. /\ stage = "nops" /\ offset < size /\ code[offset] = "nop"
        /\ nops' = nops + 1 /\ offset' = offset + 1 /\ UNCHANGED <<size, code, stage, hooks>>
    BY <1>3 DEF CountNop, InSled
  <2>2. Began' = Began /\ Began \in Nat
    BY <1>0, <2>1 DEF Began, CountInv
  <2>3. Counted(Began)' /\ ~Behind(Began)'
    BY <2>1, <2>2 DEF CountInv, Counted, Hooked, Sleds, Starts, Scanned, LongRun, Behind
  <2>4. \A m \in Began..offset : code[m] = "nop"
    BY <1>0, <2>1, <2>2 DEF CountInv
  <2>5. QED BY <1>0, <2>1, <2>2, <2>3, <2>4 DEF CountInv
<1>4. CASE LeaveSled
  <2>1. /\ stage = "nops" /\ ~(offset < size /\ code[offset] = "nop")
        /\ hooks' = (IF nops >= Reach THEN hooks + 1 ELSE hooks)
        /\ stage' = "scan" /\ offset' = offset + 1 /\ nops' = 0 /\ UNCHANGED <<size, code>>
    BY <1>4 DEF LeaveSled, InSled
  <2>2. PICK b \in 0..(size - Reach - 1) : b = offset - nops
    BY <2>1 DEF CountInv, Began
  <2>3. PICK k \in Nat : k = offset + 1
    BY <1>0
  <2>4. /\ offset <= size /\ ~Behind(b) /\ code[b] = "nop" /\ Counted(b)
        /\ \A m \in b..(offset - 1) : code[m] = "nop"
    BY <2>1, <2>2 DEF CountInv, Began
  <2>5. b \notin Starts(b) /\ Starts(k) = Starts(b) \cup {b}
    <3>1. \A j \in (b + 1)..offset : Behind(j)
      BY <1>0, <2>2, <2>4 DEF Behind
    <3>2. \A j \in 0..(size - Reach - 1) : j < k <=> j < b \/ j = b \/ j \in (b + 1)..offset
      BY <1>0, <2>2, <2>3
    <3>3. QED BY <1>0, <2>2, <2>4, <3>1, <3>2 DEF Starts, Scanned
  <2>6. LongRun(b) <=> nops >= Reach
    <3>1. CASE nops >= Reach
      BY <1>0, <2>2, <2>4, <3>1 DEF LongRun
    <3>2. CASE ~(nops >= Reach)
      <4>1. offset \in b..(b + Reach - 1) /\ offset < size
        BY <1>0, <2>2, <3>2
      <4>2. QED BY <2>1, <3>2, <4>1 DEF LongRun
    <3>3. QED BY <3>1, <3>2
  <2>7. /\ Cardinality(Hooked(k)) = Cardinality(Hooked(b))
        /\ Cardinality(Sleds(k)) = Cardinality(Sleds(b)) + (IF nops >= Reach THEN 1 ELSE 0)
        /\ Cardinality(Hooked(b)) \in Nat /\ Cardinality(Sleds(b)) \in Nat
    BY <2>4, <2>5, <2>6, OneMore DEF Jumps
  <2>8. hooks' = Cardinality(Hooked(k)) + Cardinality(Sleds(k))
    BY <1>0, <2>1, <2>4, <2>7 DEF Counted
  <2>9. Counted(k)' /\ offset' = k
    BY <2>1, <2>3, <2>8, SameCounts DEF Counted
  <2>10. Counted(offset)'
    BY <2>9 DEF Counted
  <2>11. offset' <= size' => ~Behind(offset)'
    BY <1>0, <2>1 DEF Behind
  <2>12. QED BY <2>1, <2>10, <2>11 DEF CountInv
<1>5. CASE EndScan
  <2>1. /\ stage = "scan" /\ ~(offset < size - Reach) /\ stage' = "check"
        /\ UNCHANGED <<size, code, hooks>>
    BY <1>5 DEF EndScan, Scanning
  <2>2. Starts(offset) = Starts(size)
    BY <1>0, <2>1 DEF Starts, Scanned
  <2>3. Counted(size)
    BY <2>1, <2>2 DEF CountInv, Counted, Hooked, Sleds
  <2>4. Counted(size)'
    BY <2>1, <2>3 DEF Counted, Hooked, Sleds, Starts, Scanned, LongRun, Behind
  <2>5. QED BY <2>1, <2>4 DEF CountInv
<1>6. CASE CheckByte \/ EndCheck
  <2>1. stage = "check" /\ stage' \in {"check", "done"} /\ UNCHANGED <<size, code, hooks>>
    BY <1>6 DEF CheckByte, EndCheck, Checking
  <2>2. Counted(size)'
    BY <2>1 DEF CountInv, Counted, Hooked, Sleds, Starts, Scanned, LongRun, Behind
  <2>3. QED BY <2>1, <2>2 DEF CountInv
<1>7. CASE UNCHANGED scanVars
  BY <1>7 DEF CountInv, Counted, Hooked, Sleds, Starts, Scanned, LongRun, Behind, Began, scanVars
<1>8. QED BY <1>1, <1>2, <1>3, <1>4, <1>5, <1>6, <1>7 DEF ScanNext

LEMMA CountReal == ScanTypeOK /\ CountInv => NothingInvented
<1> SUFFICES ASSUME ScanTypeOK, CountInv, stage \in {"check", "done"}
             PROVE  LET there == Cardinality(JumpsAt) + Cardinality(Sleds(size))
                    IN  /\ hooks <= there
                        /\ (\A j \in JumpsAt : ~Behind(j)) => hooks = there
  BY DEF NothingInvented
<1>1. hooks = Cardinality(Hooked(size)) + Cardinality(Sleds(size))
  BY DEF CountInv, Counted
<1>2. /\ IsFiniteSet(JumpsAt) /\ Hooked(size) \subseteq JumpsAt
      /\ Cardinality(Sleds(size)) \in Nat
  <2>1. IsFiniteSet(0..(size - Reach - 1))
    BY DetectorsAssumption, FS_Interval DEF DetectorsAssumption, ScanTypeOK
  <2>2. JumpsAt \subseteq 0..(size - Reach - 1) /\ Hooked(size) \subseteq JumpsAt
    BY DEF JumpsAt, Hooked, Starts, Scanned
  <2>3. QED BY <2>1, <2>2, FS_Subset, FiniteCounts, FS_CardinalityType
<1>3. /\ Cardinality(Hooked(size)) <= Cardinality(JumpsAt)
      /\ Cardinality(Hooked(size)) \in Nat /\ Cardinality(JumpsAt) \in Nat
  BY <1>2, FS_Subset, FS_CardinalityType
<1>4. (\A j \in JumpsAt : ~Behind(j)) => Hooked(size) = JumpsAt
  BY DetectorsAssumption DEF DetectorsAssumption, ScanTypeOK, JumpsAt, Hooked, Starts, Scanned
<1>5. QED BY <1>1, <1>2, <1>3, <1>4

(* Whatever a region holds, the scan counts only jumps and long runs of     *)
(* NOPs that are there, each once, and all of them where no jump follows a  *)
(* NOP.                                                                     *)
THEOREM ScanCounts == ScanSpec => []NothingInvented
BY CountReal, ScanTypeInit, ScanTypeStep, CountInit, CountStep, PTL DEF ScanSpec

-----------------------------------------------------------------------------
(* The detectors compared *)

(* The search for NOPs has come to the end of a run of nops NOPs.           *)
SledInv ==
    /\ stage \in {"scan", "nops"} => ~sled
    /\ stage = "check" =>
          /\ ~sled /\ nops <= offset /\ offset <= size /\ nops < Reach
          /\ \A m \in (offset - nops)..(offset - 1) : code[m] = "nop"
          /\ nops < offset => code[offset - nops - 1] # "nop"
          /\ \A j \in 0..(offset - Reach) : ~LongRun(j)
    /\ stage = "done" => (sled <=> \E j \in 0..(size - 1) : LongRun(j))

LEMMA SledInit == ScanTypeOK /\ ScanInit => SledInv
BY DetectorsAssumption DEF DetectorsAssumption, ScanInit, SledInv, ScanTypeOK

LEMMA SledStep == ScanTypeOK /\ CountInv /\ SledInv /\ [ScanNext]_scanVars => SledInv'
<1> SUFFICES ASSUME ScanTypeOK, CountInv, SledInv, [ScanNext]_scanVars PROVE SledInv'
  OBVIOUS
<1> USE DetectorsAssumption DEF DetectorsAssumption
<1>0. size \in Nat /\ offset \in Nat /\ nops \in Nat
  BY DEF ScanTypeOK
<1>1. CASE ScanByte \/ EnterSled \/ CountNop \/ LeaveSled
  BY <1>1 DEF ScanByte, EnterSled, CountNop, LeaveSled, Scanning, InSled, SledInv
<1>2. CASE EndScan
  BY <1>0, <1>2 DEF EndScan, SledInv, CountInv
<1>3. CASE CheckByte
  <2>1. /\ stage = "check" /\ size >= Reach /\ offset < size
        /\ nops' = (IF code[offset] = "nop" THEN nops + 1 ELSE 0)
        /\ sled' = (nops' >= Reach) /\ stage' = (IF sled' THEN "done" ELSE "check")
        /\ offset' = offset + 1 /\ UNCHANGED <<size, code>>
    BY <1>3 DEF CheckByte, Checking
  <2>8. /\ sled' <=> nops' >= Reach
        /\ sled' => stage' = "done"
        /\ ~sled' => stage' = "check"
    <3>1. sled' = (nops' >= Reach) /\ stage' = (IF sled' THEN "done" ELSE "check")
      BY <2>1
    <3>2. QED BY <3>1, Zenon
  <2>2. /\ nops <= offset /\ nops < Reach
        /\ \A m \in (offset - nops)..(offset - 1) : code[m] = "nop"
        /\ nops < offset => code[offset - nops - 1] # "nop"
        /\ \A j \in 0..(offset - Reach) : ~LongRun(j)
    BY <2>1 DEF SledInv
  <2>3. \A j : LongRun(j)' <=> LongRun(j)
    BY <2>1 DEF LongRun
  <2>4. CASE code[offset] # "nop"
    <3>1. nops' = 0 /\ ~sled' /\ stage' = "check"
      BY <1>0, <2>1, <2>4, <2>8
    <3>2. ASSUME NEW j \in 0..(offset + 1 - Reach) PROVE ~LongRun(j)
      <4>1. CASE j = offset + 1 - Reach
        BY <1>0, <2>4, <4>1 DEF LongRun
      <4>2. QED BY <1>0, <2>2, <4>1
    <3>3. QED BY <1>0, <2>1, <2>3, <2>4, <3>1, <3>2 DEF SledInv
  <2>5. CASE code[offset] = "nop" /\ nops + 1 < Reach
    <3>1. nops' = nops + 1 /\ ~sled' /\ stage' = "check"
      BY <1>0, <2>1, <2>5, <2>8
    <3>2. ASSUME NEW j \in 0..(offset + 1 - Reach) PROVE ~LongRun(j)
      <4>1. CASE j = offset + 1 - Reach
        <5>1. nops < offset /\ offset - nops - 1 \in j..(j + Reach - 1)
          BY <1>0, <2>5, <4>1
        <5>2. QED BY <2>2, <5>1 DEF LongRun
      <4>2. QED BY <1>0, <2>2, <4>1
    <3>3. \A m \in (offset - nops)..offset : code[m] = "nop"
      BY <1>0, <2>2, <2>5
    <3>4. offset' - nops' = offset - nops /\ nops' <= offset' /\ offset' <= size' /\ nops' < Reach
      BY <1>0, <2>1, <2>2, <2>5, <3>1
    <3>5. \A m \in (offset' - nops')..(offset' - 1) : code'[m] = "nop"
      BY <1>0, <2>1, <3>3, <3>4
    <3>6. nops' < offset' => code'[offset' - nops' - 1] # "nop"
      BY <1>0, <2>1, <2>2, <3>1, <3>4
    <3>7. \A j \in 0..(offset' - Reach) : ~LongRun(j)'
      BY <1>0, <2>1, <2>3, <3>2
    <3>8. QED BY <3>1, <3>4, <3>5, <3>6, <3>7 DEF SledInv
  <2>6. CASE code[offset] = "nop" /\ nops + 1 >= Reach
    <3>1. nops' >= Reach /\ sled' /\ stage' = "done"
      BY <1>0, <2>1, <2>6, <2>8
    <3>2. offset - nops \in 0..(size - 1) /\ LongRun(offset - nops)
      BY <1>0, <2>1, <2>2, <2>6 DEF LongRun
    <3>3. PICK j \in 0..(size - 1) : LongRun(j)
      BY <3>2
    <3>4. QED BY <2>1, <2>3, <3>1, <3>3 DEF SledInv
  <2>7. QED BY <1>0, <2>4, <2>5, <2>6
<1>4. CASE EndCheck
  <2>1. /\ stage = "check" /\ ~(size >= Reach /\ offset < size) /\ stage' = "done"
        /\ UNCHANGED <<size, code, sled>>
    BY <1>4 DEF EndCheck, Checking
  <2>2. ASSUME NEW j \in 0..(size - 1), LongRun(j) PROVE FALSE
    <3>1. j \in 0..(offset - Reach)
      BY <1>0, <2>1, <2>2 DEF SledInv, LongRun
    <3>2. QED BY <2>1, <2>2, <3>1 DEF SledInv
  <2>3. ~sled' /\ \A j \in 0..(size - 1) : ~LongRun(j)'
    BY <2>1, <2>2 DEF SledInv, LongRun
  <2>4. QED BY <2>1, <2>3 DEF SledInv
<1>5. CASE UNCHANGED scanVars
  BY <1>5 DEF scanVars, SledInv, LongRun
<1>6. QED BY <1>1, <1>2, <1>3, <1>4, <1>5 DEF ScanNext

(* A region of more than Reach bytes whose scan counts nothing has no start *)
(* with a jump.                                                             *)
LEMMA NothingHooked ==
    ASSUME ScanTypeOK, Counted(size), hooks = 0
    PROVE  Hooked(size) = {}
<1>1. IsFiniteSet(Hooked(size)) /\ Cardinality(Hooked(size)) \in Nat /\ Cardinality(Sleds(size)) \in Nat
  BY FiniteCounts, FS_CardinalityType
<1>2. Cardinality(Hooked(size)) = 0
  BY <1>1 DEF Counted
<1>3. QED BY <1>1, <1>2, FS_EmptySet

LEMMA InvAgrees == ScanTypeOK /\ CountInv /\ SledInv => Agreement
<1> SUFFICES ASSUME ScanTypeOK, CountInv, SledInv, stage = "done" PROVE Agreement
  BY DEF Agreement
<1> USE DetectorsAssumption DEF DetectorsAssumption
<1>0. size \in Nat /\ Counted(size)
  BY DEF ScanTypeOK, CountInv
<1>1. sled <=> \E j \in 0..(size - 1) : LongRun(j)
  BY DEF SledInv
<1>2. ASSUME hooks = 0, Margin >= Reach, NEW j \in Inside, size >= 2 * Margin, code[j] \in Jumps
      PROVE  Behind(j)
  <2>1. j \in 0..(size - Reach - 1) /\ j < size
    BY <1>0, <1>2 DEF Inside
  <2>2. j \notin Hooked(size)
    BY <1>0, <1>2, NothingHooked
  <2>3. QED BY <1>2, <2>1, <2>2 DEF Hooked, Starts, Scanned
<1>3. ASSUME hooks = 0, size > Reach PROVE ~CheckFunction
  <2>1. 0 \notin Hooked(size)
    BY <1>0, <1>3, NothingHooked
  <2>2. 0 \in Starts(size)
    BY <1>0, <1>3 DEF Starts, Scanned, Behind
  <2>3. QED BY <2>1, <2>2 DEF Hooked, CheckFunction
<1>4. /\ CheckFunction <=> CheckJmpHook \/ CheckCallHook
      /\ CheckDetour => CheckJmpHook
  BY DEF CheckFunction, CheckJmpHook, CheckCallHook, CheckDetour, Jumps
<1>5. HookInline => TamperInline
  BY DEF HookInline, TamperInline, Jumps
<1>6. TamperInline => UnexpectedJumps
  BY <1>0 DEF TamperInline, UnexpectedJumps, Inside
<1>7. QED BY <1>1, <1>2, <1>3, <1>4, <1>5, <1>6 DEF Agreement

(* For regions of any size, the search for NOPs is exact, and a region that *)
(* the scan clears can be condemned for a jump behind NOPs only.            *)
THEOREM DetectorsAgree == ScanSpec => []Agreement
BY ScanTypeInit, ScanTypeStep, CountInit, CountStep, SledInit, SledStep, InvAgrees, PTL DEF ScanSpec
=============================================================================
