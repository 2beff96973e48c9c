--------------------------- MODULE StateSyncProofs ---------------------------
(***************************************************************************)
(* For any number of callers, handles and restarts: a shutdown that overtook *)
(* no call is final, the recorded socket is the only open one until one did, *)
(* and afterwards a stop or a start loses one at most.                      *)
(***************************************************************************)
EXTENDS StateSync, FiniteSetTheorems, TLAPS

(* Every variable keeps its type.                                           *)
THEOREM SyncTypeCorrect == SyncSpec => []SyncTypeOK
<1> USE SyncAssumption DEF SyncAssumption
<1>1. SyncInit => SyncTypeOK
  <2> SUFFICES ASSUME SyncInit PROVE SyncTypeOK
    OBVIOUS
  <2>1. /\ socket \in Sockets \cup {None} /\ syncing \in BOOLEAN /\ destroyed \in BOOLEAN
        /\ mutex \in Threads \cup {Owner, None} /\ late \in Nat
    BY DEF SyncInit
  <2>6. restarts \in 0..MaxRestarts
    BY DEF SyncInit
  <2>2. state \in [Sockets -> {"closed", "created", "connected"}]
    BY DEF SyncInit
  <2>3. pc \in [Threads \cup {Owner} -> {"idle", "ensure", "connect", "dial", "use",
                                        "transfer", "clear", "destroy"}]
    BY DEF SyncInit
  <2>4. handle \in [Threads -> Sockets \cup {None}]
    BY DEF SyncInit
  <2>5. QED BY <2>1, <2>2, <2>3, <2>4, <2>6 DEF SyncTypeOK
<1>2. SyncTypeOK /\ [SyncNext]_vars => SyncTypeOK'
  <2> SUFFICES ASSUME SyncTypeOK, [SyncNext]_vars PROVE SyncTypeOK'
    OBVIOUS
  <2> USE DEF SyncTypeOK, Goto, Forget, Close
  <2>1. ASSUME NEW t \in Threads, Call(t) PROVE SyncTypeOK'
    BY <2>1 DEF Call
  <2>2. ASSUME NEW t \in Threads, Ensure(t) PROVE SyncTypeOK'
    BY <2>2 DEF Ensure
  <2>3. ASSUME NEW t \in Threads, Found(t) \/ NoSocket(t) PROVE SyncTypeOK'
    BY <2>3 DEF Found, NoSocket
  <2>4. ASSUME NEW t \in Threads, Create(t) PROVE SyncTypeOK'
    BY <2>4 DEF Create, Opened
  <2>5. ASSUME NEW t \in Threads, Connected(t) PROVE SyncTypeOK'
    BY <2>5 DEF Connected
  <2>6. ASSUME NEW t \in Threads, Refused(t) PROVE SyncTypeOK'
    BY <2>6 DEF Refused
  <2>7. ASSUME NEW t \in Threads, Use(t) \/ Transfer(t) PROVE SyncTypeOK'
    BY <2>7 DEF Use, Transfer
  <2>8. CASE SyncShutdown
    BY <2>8 DEF SyncShutdown
  <2>9. CASE Clear
    <3>1. Overtaken \subseteq Threads
      BY DEF Overtaken
    <3>2. IsFiniteSet(Overtaken)
      BY <3>1, FS_Subset
    <3>4. Cardinality(Overtaken) \in Nat
      BY <3>2, FS_CardinalityType
    <3>5. late' \in Nat
      BY <2>9, <3>4 DEF Clear
    <3>3. QED BY <2>9, <3>5 DEF Clear
  <2>10. CASE Destroy
    BY <2>10 DEF Destroy
  <2>11. CASE Restart
    <3>1. restarts' \in 0..MaxRestarts
      BY <2>11 DEF Restart
    <3>2. QED BY <2>11, <3>1 DEF Restart
  <2>12. CASE UNCHANGED vars
    BY <2>12 DEF vars
  <2>13. QED
    BY <2>1, <2>2, <2>3, <2>4, <2>5, <2>6, <2>7, <2>8, <2>9, <2>10, <2>11, <2>12
       DEF SyncNext, Step
<1>3. QED BY <1>1, <1>2, PTL DEF SyncSpec

-----------------------------------------------------------------------------
(* What holds until a shutdown overtakes a call: whoever connects or shuts   *)
(* down holds the mutex, the recorded socket is the only open one, and a     *)
(* disabled synchronizer has none and nobody about to open one.             *)
Quiet == {"idle", "use", "transfer"}
Exclusive ==
    /\ \A t \in Threads : /\ pc[t] = "dial" => mutex = t
                          /\ pc[t] \notin {"clear", "destroy"}
    /\ pc[Owner] = "clear" => mutex = Owner /\ Opened = {}
Recorded == Opened \subseteq {socket}
Disabled ==
    /\ ~syncing <=> destroyed \/ pc[Owner] = "destroy"
    /\ ~syncing => /\ socket = None /\ Opened = {}
                   /\ \A t \in Threads : pc[t] \in Quiet
                   /\ pc[Owner] # "clear"
Undisturbed == Exclusive /\ Recorded /\ Disabled
Settled == late = 0 => Undisturbed
SyncInv == SyncTypeOK /\ Settled

LEMMA UndisturbedStep ==
  ASSUME SyncTypeOK, Undisturbed, late = 0, late' = 0, [SyncNext]_vars
  PROVE  Undisturbed'
<1> USE SyncAssumption DEF SyncAssumption
<1> USE DEF SyncTypeOK, Undisturbed, Exclusive, Recorded, Disabled, Quiet, Opened, Goto, Forget, Close
<1>1. ASSUME NEW t \in Threads, Call(t) PROVE Undisturbed'
  BY <1>1 DEF Call
<1>2. ASSUME NEW t \in Threads, Ensure(t) PROVE Undisturbed'
  BY <1>2 DEF Ensure
<1>3. ASSUME NEW t \in Threads, Found(t) \/ NoSocket(t) PROVE Undisturbed'
  BY <1>3 DEF Found, NoSocket
<1>4. ASSUME NEW t \in Threads, Create(t) PROVE Undisturbed'
  BY <1>4 DEF Create, CanLock
<1>5. ASSUME NEW t \in Threads, Connected(t) PROVE Undisturbed'
  BY <1>5 DEF Connected
<1>6. ASSUME NEW t \in Threads, Refused(t) PROVE Undisturbed'
  BY <1>6 DEF Refused
<1>7. ASSUME NEW t \in Threads, Use(t) \/ Transfer(t) PROVE Undisturbed'
  BY <1>7 DEF Use, Transfer
<1>8. CASE SyncShutdown
  <2>1. Opened' = {}
    BY <1>8 DEF SyncShutdown
  <2>2. syncing
    BY <1>8 DEF SyncShutdown
  <2>3. QED BY <1>8, <2>1, <2>2 DEF SyncShutdown
<1>9. CASE Clear
  <2>1. Overtaken \subseteq Threads /\ IsFiniteSet(Overtaken)
    BY FS_Subset DEF Overtaken
  <2>2. Cardinality(Overtaken) = 0
    BY <1>9, <2>1, FS_CardinalityType DEF Clear
  <2>3. \A t \in Threads : pc[t] \notin {"ensure", "connect"}
    BY <2>1, <2>2, FS_EmptySet DEF Overtaken
  <2>4. \A t \in Threads : pc[t] \in Quiet
    BY <1>9, <2>3 DEF Clear
  <2>5. QED BY <1>9, <2>4 DEF Clear
<1>10. CASE Destroy
  BY <1>10 DEF Destroy
<1>11. CASE Restart
  BY <1>11 DEF Restart
<1>12. CASE UNCHANGED vars
  BY <1>12 DEF vars
<1>13. QED
  BY <1>1, <1>2, <1>3, <1>4, <1>5, <1>6, <1>7, <1>8, <1>9, <1>10, <1>11, <1>12
     DEF SyncNext, Step

LEMMA SyncInvariant == SyncSpec => []SyncInv
<1>1. SyncInit => Settled
  BY SyncAssumption DEF SyncAssumption, SyncInit, Settled, Undisturbed, Exclusive, Recorded, Disabled, Opened
<1>2. SyncTypeOK /\ SyncTypeOK' /\ Settled /\ [SyncNext]_vars => Settled'
  <2> SUFFICES ASSUME SyncTypeOK, SyncTypeOK', Settled, [SyncNext]_vars, late' = 0
               PROVE  Undisturbed'
    BY DEF Settled
  <2>5. late \in Nat
    BY DEF SyncTypeOK
  <2>1. late' = late \/ (Clear /\ late' = late + Cardinality(Overtaken))
    BY DEF SyncNext, Step, Call, Ensure, Found, NoSocket, Create, Connected, Refused, Use, Transfer,
           SyncShutdown, Clear, Destroy, Restart, vars
  <2>2. Cardinality(Overtaken) \in Nat
    <3>1. Overtaken \subseteq Threads /\ IsFiniteSet(Threads)
      BY SyncAssumption DEF SyncAssumption, Overtaken
    <3>2. IsFiniteSet(Overtaken)
      BY <3>1, FS_Subset
    <3>3. QED BY <3>2, FS_CardinalityType
  <2>3. late = 0
    BY <2>1, <2>2, <2>5
  <2>6. Undisturbed
    BY <2>3 DEF Settled
  <2>4. QED BY <2>3, <2>6, UndisturbedStep
<1>3. QED BY <1>1, <1>2, SyncTypeCorrect, PTL DEF SyncSpec, SyncInv

(* A shutdown that overtook no call leaves no socket open and nobody who     *)
(* would open one, for any number of callers.                               *)
THEOREM SyncShutdownFinal == SyncSpec => []ShutdownFinal
<1>1. SyncInv => ShutdownFinal
  BY DEF SyncInv, Settled, Undisturbed, Disabled, Quiet, ShutdownFinal
<1>2. QED BY <1>1, SyncInvariant, PTL

-----------------------------------------------------------------------------
(* What holds after a shutdown has overtaken a call as well: the mutex may   *)
(* exclude nobody, and still only a stop or a start forgets an open socket,  *)
(* one each.  The first stop forgets none, for it meets nobody who was       *)
(* overtaken before.                                                       *)
Lost == Opened \ {socket}
Owning ==
    /\ syncing <=> ~(destroyed \/ pc[Owner] = "destroy")
    /\ pc[Owner] = "clear" => ~destroyed
First == syncing /\ restarts = 0 => late = 0
Losses ==
    /\ Cardinality(Lost) <= 2 * restarts
    /\ syncing /\ restarts # 0 => Cardinality(Lost) < 2 * restarts
LossInv == SyncInv /\ Owning /\ First /\ Losses

LEMMA OwningStep ==
  ASSUME SyncTypeOK, Owning, First, [SyncNext]_vars
  PROVE  Owning' /\ First'
<1> USE SyncAssumption DEF SyncAssumption
<1> USE DEF SyncTypeOK, Owning, First, Goto
<1>1. ASSUME NEW t \in Threads, Call(t) \/ Step(t) PROVE Owning' /\ First'
  BY <1>1 DEF Call, Step, Ensure, Found, NoSocket, Create, Connected, Refused, Use, Transfer
<1>2. CASE SyncShutdown
  BY <1>2 DEF SyncShutdown
<1>3. CASE Clear
  BY <1>3 DEF Clear
<1>4. CASE Destroy
  BY <1>4 DEF Destroy
<1>5. CASE Restart
  BY <1>5 DEF Restart
<1>6. CASE UNCHANGED vars
  BY <1>6 DEF vars
<1>7. QED BY <1>1, <1>2, <1>3, <1>4, <1>5, <1>6 DEF SyncNext

(* Everything but a stop and a start keeps or closes what is lost: who       *)
(* creates a socket had recorded none, who is refused closes the recorded.   *)
LEMMA NothingLost ==
  ASSUME SyncTypeOK, [SyncNext]_vars, ~Clear, ~Restart
  PROVE  Lost' \subseteq Lost /\ syncing' = syncing /\ restarts' = restarts
<1> USE SyncAssumption DEF SyncAssumption
<1> USE DEF SyncTypeOK, Lost, Opened, Goto, Forget, Close
<1>1. ASSUME NEW t \in Threads, Call(t) \/ Ensure(t) \/ Found(t) \/ NoSocket(t)
                              \/ Use(t) \/ Transfer(t)
      PROVE  Lost' \subseteq Lost /\ syncing' = syncing /\ restarts' = restarts
  BY <1>1 DEF Call, Ensure, Found, NoSocket, Use, Transfer
<1>2. ASSUME NEW t \in Threads, Create(t)
      PROVE  Lost' \subseteq Lost /\ syncing' = syncing /\ restarts' = restarts
  BY <1>2 DEF Create
<1>3. ASSUME NEW t \in Threads, Connected(t)
      PROVE  Lost' \subseteq Lost /\ syncing' = syncing /\ restarts' = restarts
  BY <1>3 DEF Connected
<1>4. ASSUME NEW t \in Threads, Refused(t)
      PROVE  Lost' \subseteq Lost /\ syncing' = syncing /\ restarts' = restarts
  BY <1>4 DEF Refused
<1>5. CASE SyncShutdown
  BY <1>5 DEF SyncShutdown
<1>6. CASE Destroy
  BY <1>6 DEF Destroy
<1>7. CASE UNCHANGED vars
  BY <1>7 DEF vars
<1>8. QED BY <1>1, <1>2, <1>3, <1>4, <1>5, <1>6, <1>7 DEF SyncNext, Step

LEMMA LossesStep ==
  ASSUME LossInv, SyncTypeOK', [SyncNext]_vars
  PROVE  Losses'
<1> USE SyncAssumption DEF SyncAssumption
<1>1. SyncTypeOK /\ Settled /\ Owning /\ First /\ Losses
  BY DEF LossInv, SyncInv
<1>2. /\ IsFiniteSet(Lost) /\ Cardinality(Lost) \in Nat
      /\ IsFiniteSet(Lost') /\ Cardinality(Lost') \in Nat
  <2>1. Lost \subseteq Sockets /\ Lost' \subseteq Sockets
    BY DEF Lost, Opened
  <2>2. QED BY <2>1, FS_Subset, FS_CardinalityType
<1>3. restarts \in Nat /\ restarts' \in Nat
  BY <1>1 DEF SyncTypeOK
<1>4. CASE ~Clear /\ ~Restart
  <2>1. Lost' \subseteq Lost /\ syncing' = syncing /\ restarts' = restarts
    BY <1>1, <1>4, NothingLost
  <2>2. Cardinality(Lost') <= Cardinality(Lost)
    BY <1>2, <2>1, FS_Subset
  <2>3. QED BY <1>1, <1>2, <1>3, <2>1, <2>2 DEF Losses
<1>5. ASSUME Clear \/ Restart
      PROVE  Cardinality(Lost') <= Cardinality(Lost) + 1
  <2>1. Lost' \subseteq Lost \cup {socket}
    BY <1>5 DEF Clear, Restart, Lost, Opened
  <2>5. PICK L : L = Lost
    OBVIOUS
  <2>6. /\ IsFiniteSet(L \cup {socket})
        /\ Cardinality(L \cup {socket}) =
             IF socket \in L THEN Cardinality(L) ELSE Cardinality(L) + 1
    BY <1>2, <2>5, FS_AddElement
  <2>2. /\ IsFiniteSet(Lost \cup {socket})
        /\ Cardinality(Lost \cup {socket}) <= Cardinality(Lost) + 1
    BY <1>2, <2>5, <2>6
  <2>3. Cardinality(Lost') <= Cardinality(Lost \cup {socket})
    BY <2>1, <2>2, FS_Subset
  <2>4. Cardinality(Lost \cup {socket}) \in Nat
    BY <2>2, FS_CardinalityType
  <2>7. QED BY <1>2, <2>2, <2>3, <2>4
<1>6. CASE Clear
  <2>1. syncing /\ ~syncing' /\ restarts' = restarts
    BY <1>1, <1>6 DEF Clear, Owning
  <2>2. CASE restarts = 0
    <3>1. late = 0
      BY <1>1, <2>1, <2>2 DEF First
    <3>2. Opened = {}
      BY <1>1, <1>6, <3>1 DEF Settled, Undisturbed, Exclusive, Clear
    <3>3. Lost' = {}
      BY <1>6, <3>2 DEF Clear, Lost, Opened
    <3>4. Cardinality(Lost') = 0
      BY <3>3, FS_EmptySet
    <3>5. QED BY <2>1, <2>2, <3>4 DEF Losses
  <2>3. CASE restarts # 0
    <3>1. Cardinality(Lost) < 2 * restarts
      BY <1>1, <2>1, <2>3 DEF Losses
    <3>2. QED BY <1>2, <1>3, <1>5, <1>6, <2>1, <3>1 DEF Losses
  <2>4. QED BY <2>2, <2>3
<1>7. CASE Restart
  <2>1. restarts' = restarts + 1
    BY <1>7 DEF Restart
  <2>2. Cardinality(Lost) <= 2 * restarts
    BY <1>1 DEF Losses
  <2>3. QED BY <1>2, <1>3, <1>5, <1>7, <2>1, <2>2 DEF Losses
<1>8. QED BY <1>4, <1>6, <1>7

(* The recorded socket is the only open one until a shutdown overtakes a     *)
(* call, and from then on a stop or a start loses one at most, for any       *)
(* number of callers, handles and restarts.                                *)
THEOREM SyncOneSocket == SyncSpec => []OneSocket
<1>1. SyncInit => Owning /\ First /\ Losses
  <2> SUFFICES ASSUME SyncInit PROVE Owning /\ First /\ Losses
    OBVIOUS
  <2>1. Owning /\ First /\ restarts = 0
    BY SyncAssumption DEF SyncAssumption, SyncInit, Owning, First
  <2>2. Lost = {}
    BY DEF SyncInit, Lost, Opened
  <2>3. Cardinality(Lost) = 0
    BY <2>2, FS_EmptySet
  <2>4. QED BY <2>1, <2>3 DEF Losses
<1>2. LossInv /\ SyncInv' /\ [SyncNext]_vars => (Owning /\ First /\ Losses)'
  <2> SUFFICES ASSUME LossInv, SyncInv', [SyncNext]_vars PROVE (Owning /\ First /\ Losses)'
    OBVIOUS
  <2>1. SyncTypeOK /\ Owning /\ First /\ SyncTypeOK'
    BY DEF LossInv, SyncInv
  <2>2. QED BY <2>1, OwningStep, LossesStep
<1>3. LossInv => OneSocket
  BY DEF LossInv, SyncInv, Settled, Undisturbed, Recorded, Losses, Lost, OneSocket
<1>4. QED BY <1>1, <1>2, <1>3, SyncInvariant, PTL DEF SyncSpec, LossInv
=============================================================================
