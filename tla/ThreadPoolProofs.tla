-------------------------- MODULE ThreadPoolProofs --------------------------
(***************************************************************************)
(* The safety of ThreadPool for every number of workers, submitters and     *)
(* tasks, every queue size and both kinds of semaphore and event.           *)
(***************************************************************************)
EXTENDS ThreadPool, FiniteSetTheorems, SequenceTheorems, TLAPS

(* Every step of the pool keeps the types of its variables: tpw, submit and *)
(* shutdown leave no half-written state behind.                             *)
THEOREM PoolTypeCorrect == Spec => []TypeOK
<1> USE PoolAssumption DEF PoolAssumption
<1>1. Init => TypeOK
  <2> SUFFICES ASSUME Init PROVE TypeOK
    OBVIOUS
  <2>1. queue \in Seq(Tasks) /\ sem \in 0..SemMax
    BY EmptySeq DEF Init
  <2>6. paused \in BOOLEAN /\ event \in BOOLEAN /\ late \in Nat
    BY DEF Init
  <2>2. /\ stats \in [active : Int, completed : Int]
        /\ reg \in [Workers -> Int \cup {None}]
        /\ opc \in {"open", "signal", "freed"} /\ signals \in Nat /\ done \subseteq Tasks
    BY DEF Init
  <2>3. /\ wpc \in [Workers -> {"wait", "timedout", "got", "pop", "inc", "run",
                                "dec", "cmp", "exited"}]
        /\ wtask \in [Workers -> Tasks \cup {None}]
        /\ \A w \in Workers : wtask[w] \in Tasks <=> wpc[w] \in {"inc", "run"}
    BY DEF Init
  <2>4. /\ spc \in [Submitters -> {"idle", "append", "signal"}]
        /\ stask \in [Submitters -> Tasks \cup {None}]
        /\ \A s \in Submitters : stask[s] \in Tasks <=> spc[s] = "append"
    BY DEF Init
  <2>5. QED BY <2>1, <2>2, <2>3, <2>4, <2>6 DEF TypeOK
<1>2. TypeOK /\ [Next]_vars => TypeOK'
  <2> SUFFICES ASSUME TypeOK, [Next]_vars PROVE TypeOK'
    OBVIOUS
  <2> USE DEF TypeOK, Goto, Released, workerVars, submitVars, ownerVars
  <2>1. ASSUME NEW w \in Workers, Take(w) PROVE TypeOK'
    BY <2>1 DEF Take
  <2>2. ASSUME NEW w \in Workers, TimeOut(w) PROVE TypeOK'
    BY <2>2 DEF TimeOut
  <2>3. ASSUME NEW w \in Workers, CheckEvent(w) PROVE TypeOK'
    BY <2>3 DEF CheckEvent
  <2>4. ASSUME NEW w \in Workers, PutBack(w) PROVE TypeOK'
    BY <2>4 DEF PutBack
  <2>5. ASSUME NEW w \in Workers, PassPause(w) PROVE TypeOK'
    BY <2>5 DEF PassPause
  <2>6. ASSUME NEW w \in Workers, Pop(w) PROVE TypeOK'
    <3>1. Head(queue) \in Tasks /\ Tail(queue) \in Seq(Tasks)
      BY <2>6, HeadTailProperties DEF Pop
    <3>2. QED BY <2>6, <3>1 DEF Pop
  <2>7. ASSUME NEW w \in Workers, PopNothing(w) PROVE TypeOK'
    BY <2>7 DEF PopNothing
  <2>8. ASSUME NEW w \in Workers, Load(w) PROVE TypeOK'
    <3>1. stats[Counter[wpc[w]].field] \in Int
      BY <2>8 DEF Load, Counter
    <3>2. QED BY <2>8, <3>1 DEF Load
  <2>9. ASSUME NEW w \in Workers, Store(w) PROVE TypeOK'
    <3>1. reg[w] \in Int
      BY <2>9 DEF Store
    <3>2. CASE wpc[w] = "inc"
      BY <2>9, <3>1, <3>2 DEF Store, Counter
    <3>3. CASE wpc[w] = "dec"
      BY <2>9, <3>1, <3>3 DEF Store, Counter
    <3>4. CASE wpc[w] = "cmp"
      BY <2>9, <3>1, <3>4 DEF Store, Counter
    <3>5. QED BY <2>9, <3>2, <3>3, <3>4 DEF Store, Counter
  <2>10. ASSUME NEW w \in Workers, Run(w) PROVE TypeOK'
    BY <2>10 DEF Run
  <2>11. ASSUME NEW s \in Submitters, NEW t \in Tasks, Submit(s, t) PROVE TypeOK'
    BY <2>11 DEF Submit
  <2>12. ASSUME NEW s \in Submitters, Enqueue(s) PROVE TypeOK'
    <3>1. Append(queue, stask[s]) \in Seq(Tasks)
      BY <2>12, AppendProperties DEF Enqueue
    <3>2. QED BY <2>12, <3>1 DEF Enqueue
  <2>13. ASSUME NEW s \in Submitters, Exhausted(s) PROVE TypeOK'
    BY <2>13 DEF Exhausted
  <2>14. ASSUME NEW s \in Submitters, Signal(s) PROVE TypeOK'
    BY <2>14 DEF Signal
  <2>15. CASE Pause \/ Resume
    <3>1. UNCHANGED <<queue, sem, workerVars, submitVars, ownerVars>>
      BY <2>15 DEF Pause, Resume
    <3>2. paused' \in BOOLEAN /\ late' \in Nat
      <4>1. (paused' = TRUE \/ paused' = FALSE) /\ late' = 0
        BY <2>15, Zenon DEF Pause, Resume
      <4>2. QED BY <4>1
    <3>3. QED BY <3>1, <3>2
  <2>16. CASE Shutdown
    BY <2>16, FS_CardinalityType DEF Shutdown
  <2>17. CASE ShutdownSignal
    BY <2>17 DEF ShutdownSignal
  <2>18. CASE Free
    BY <2>18 DEF Free
  <2>19. CASE UNCHANGED vars
    BY <2>19 DEF vars
  <2>20. QED
    BY <2>1, <2>2, <2>3, <2>4, <2>5, <2>6, <2>7, <2>8, <2>9, <2>10, <2>11, <2>12,
       <2>13, <2>14, <2>15, <2>16, <2>17, <2>18, <2>19
       DEF Next, Worker, Submitter, Owner
<1>3. QED BY <1>1, <1>2, PTL DEF Spec

-----------------------------------------------------------------------------
(* Tokens and tasks *)

LEMMA CountsFinite ==
  ASSUME TypeOK
  PROVE  /\ IsFiniteSet(Holders) /\ Cardinality(Holders) \in Nat
         /\ IsFiniteSet(Signallers) /\ Cardinality(Signallers) \in Nat
<1>1. IsFiniteSet(Workers) /\ IsFiniteSet(Submitters)
  BY PoolAssumption DEF PoolAssumption
<1>2. Holders \in SUBSET Workers /\ Signallers \in SUBSET Submitters
  BY DEF Holders, Signallers
<1>3. QED BY <1>1, <1>2, FS_Subset, FS_CardinalityType

(* What the invariant needs of each step: tokens leave only towards a       *)
(* worker's hand, and a signal that is dropped finds the semaphore full.    *)
TokensCover == NoLostWakeup /\ WithinCapacity

LEMMA ReleasedCovers ==
  ASSUME TypeOK
  PROVE  /\ Released \in Nat /\ Released >= sem
         /\ Released = sem + 1 \/ Released >= QueueSize
BY PoolAssumption DEF PoolAssumption, TypeOK, Released

LEMMA WorkerKeepsTokens ==
  ASSUME TypeOK, TypeOK', TokensCover, NEW w \in Workers, Worker(w)
  PROVE  TokensCover'
<1> USE DEF TokensCover, NoLostWakeup, WithinCapacity
<1> DEFINE h == Cardinality(Holders)
           g == Cardinality(Signallers)
<1>0. /\ h \in Nat /\ g \in Nat /\ IsFiniteSet(Holders)
      /\ sem \in Nat /\ sem' \in Nat /\ Len(queue) \in Nat
      /\ QueueSize \in Nat /\ SemMax \in Nat /\ w \in DOMAIN wpc
  BY CountsFinite, LenProperties, PoolAssumption DEF TypeOK, PoolAssumption
<1>1. ASSUME UNCHANGED Holders, UNCHANGED <<Signallers, sem, queue>> PROVE TokensCover'
  BY <1>1
<1>2. ASSUME ~(wpc[w] \in {"got", "pop"}), ~(wpc'[w] \in {"got", "pop"}),
             \A v \in Workers \ {w} : wpc'[v] = wpc[v]
      PROVE UNCHANGED Holders
  BY <1>2 DEF Holders
<1>3. ASSUME wpc[w] \in {"got", "pop"}, ~(wpc'[w] \in {"got", "pop"}),
             \A v \in Workers \ {w} : wpc'[v] = wpc[v]
      PROVE Cardinality(Holders') = h - 1 /\ h - 1 \in Nat
  <2>1. Holders' = Holders \ {w} /\ w \in Holders
    BY <1>3 DEF Holders
  <2>2. IsFiniteSet(Holders') /\ Cardinality(Holders') = h - 1
    BY <2>1, <1>0, FS_RemoveElement
  <2>3. QED BY <2>2, FS_CardinalityType
<1>4. CASE Take(w)
  <2>1. Holders' = Holders \cup {w} /\ w \notin Holders
    BY <1>4, <1>0 DEF Take, Goto, Holders
  <2>2. Cardinality(Holders') = h + 1
    BY <2>1, <1>0, FS_AddElement
  <2>3. QED BY <2>2, <1>0, <1>4 DEF Take, Signallers, submitVars
<1>5. CASE TimeOut(w) \/ CheckEvent(w)
  <2>1. ~(wpc[w] \in {"got", "pop"}) /\ ~(wpc'[w] \in {"got", "pop"})
    BY <1>5, <1>0 DEF TimeOut, CheckEvent, Goto
  <2>2. \A v \in Workers \ {w} : wpc'[v] = wpc[v]
    <3>1. \E to : wpc' = [wpc EXCEPT ![w] = to]
      BY <1>5 DEF TimeOut, CheckEvent, Goto
    <3>2. QED BY <3>1, <1>0 DEF TypeOK
  <2>3. UNCHANGED <<Signallers, sem, queue>>
    BY <1>5 DEF TimeOut, CheckEvent, Signallers, submitVars
  <2>4. QED BY <2>1, <2>2, <2>3, <1>1, <1>2
<1>6. CASE PutBack(w)
  <2>1. Cardinality(Holders') = h - 1 /\ h - 1 \in Nat
    BY <1>3, <1>0, <1>6 DEF PutBack, Goto
  <2>2. sem' = Released /\ queue' = queue /\ Signallers' = Signallers
    BY <1>6 DEF PutBack, Signallers, submitVars
  <2>3. Len(queue) <= sem' + (h - 1) + g
    <3>1. CASE sem' = sem + 1
      BY <3>1, <1>0
    <3>2. CASE sem' >= QueueSize
      BY <3>2, <2>1, <1>0
    <3>3. QED BY <3>1, <3>2, <2>2, ReleasedCovers
  <2>4. QED BY <2>1, <2>2, <2>3
<1>7. CASE PassPause(w)
  <2>1. Holders' = Holders
    BY <1>7, <1>0 DEF PassPause, Goto, Holders
  <2>2. QED BY <2>1, <1>1, <1>7 DEF PassPause, Signallers, submitVars
<1>8. CASE Pop(w)
  <2>1. Cardinality(Holders') = h - 1
    BY <1>3, <1>0, <1>8 DEF Pop, Goto
  <2>2. Len(queue') = Len(queue) - 1
    BY <1>8, HeadTailProperties DEF Pop, TypeOK
  <2>3. QED BY <2>1, <2>2, <1>0, <1>8 DEF Pop, Signallers, submitVars
<1>9. CASE PopNothing(w)
  <2>1. Len(queue') = 0
    BY <1>9, EmptySeq DEF PopNothing
  <2>2. Cardinality(Holders') \in Nat /\ Signallers' = Signallers
    <3>1. Holders' \in SUBSET Workers /\ IsFiniteSet(Workers)
      BY PoolAssumption DEF Holders, PoolAssumption
    <3>2. QED BY <3>1, <1>9, FS_Subset, FS_CardinalityType
                 DEF PopNothing, Signallers, submitVars
  <2>3. QED BY <2>1, <2>2, <1>0
<1>10. CASE Load(w)
  BY <1>1, <1>10 DEF Load, Holders, Signallers, submitVars
<1>11. CASE Run(w)
  BY <1>1, <1>2, <1>0, <1>11 DEF Run, Goto, Signallers, submitVars
<1>12. CASE Store(w)
  <2>1. wpc[w] \in {"inc", "dec", "cmp"} /\ wpc'[w] \in {"run", "cmp", "wait"}
    BY <1>12, <1>0 DEF Store, Counter, Goto
  <2>2. \A v \in Workers \ {w} : wpc'[v] = wpc[v]
    BY <1>12, <1>0 DEF Store, Goto
  <2>3. QED BY <2>1, <2>2, <1>1, <1>2, <1>12 DEF Store, Signallers, submitVars
<1>13. QED BY <1>4, <1>5, <1>6, <1>7, <1>8, <1>9, <1>10, <1>11, <1>12 DEF Worker

LEMMA OthersKeepTokens ==
  ASSUME TypeOK, TypeOK', TokensCover,
         \/ \E s \in Submitters : Submitter(s) \/ \E t \in Tasks : Submit(s, t)
         \/ Pause \/ Resume \/ Shutdown \/ Owner \/ UNCHANGED vars
  PROVE  TokensCover'
<1> USE DEF TokensCover, NoLostWakeup, WithinCapacity
<1> DEFINE h == Cardinality(Holders)
           g == Cardinality(Signallers)
<1>0. /\ h \in Nat /\ g \in Nat /\ IsFiniteSet(Signallers)
      /\ sem \in Nat /\ sem' \in Nat /\ Len(queue) \in Nat
      /\ QueueSize \in Nat /\ SemMax \in Nat
  BY CountsFinite, LenProperties, PoolAssumption DEF TypeOK, PoolAssumption
<1>1. ASSUME UNCHANGED <<Holders, Signallers, sem, queue>> PROVE TokensCover'
  BY <1>1
<1>2. ASSUME NEW s \in Submitters, NEW t \in Tasks, Submit(s, t) PROVE TokensCover'
  <2>1. UNCHANGED Signallers
    BY <1>2 DEF Submit, Signallers, TypeOK
  <2>2. QED BY <2>1, <1>1, <1>2 DEF Submit, Holders, workerVars
<1>3. ASSUME NEW s \in Submitters, Enqueue(s) PROVE TokensCover'
  <2>1. Signallers' = Signallers \cup {s} /\ s \notin Signallers
    BY <1>3 DEF Enqueue, Signallers, TypeOK
  <2>2. Cardinality(Signallers') = g + 1
    BY <2>1, <1>0, FS_AddElement
  <2>3. stask[s] \in Tasks
    BY <1>3 DEF Enqueue, TypeOK
  <2>4. Len(queue') = Len(queue) + 1
    BY <1>3, <2>3, AppendProperties DEF Enqueue, TypeOK
  <2>5. Holders' = Holders /\ sem' = sem /\ Len(queue) < QueueSize
    BY <1>3 DEF Enqueue, Holders, workerVars
  <2>6. QED BY <2>2, <2>4, <2>5, <1>0
<1>4. ASSUME NEW s \in Submitters, Exhausted(s) PROVE TokensCover'
  <2>1. UNCHANGED Signallers
    BY <1>4 DEF Exhausted, Signallers, TypeOK
  <2>2. QED BY <2>1, <1>1, <1>4 DEF Exhausted, Holders, workerVars
<1>5. ASSUME NEW s \in Submitters, Signal(s) PROVE TokensCover'
  <2>1. Signallers' = Signallers \ {s} /\ s \in Signallers
    BY <1>5 DEF Signal, Signallers, TypeOK
  <2>2. Cardinality(Signallers') = g - 1 /\ g - 1 \in Nat
    <3>1. IsFiniteSet(Signallers') /\ Cardinality(Signallers') = g - 1
      BY <2>1, <1>0, FS_RemoveElement
    <3>2. QED BY <3>1, FS_CardinalityType
  <2>3. sem' = Released /\ queue' = queue /\ Holders' = Holders
    BY <1>5 DEF Signal, Holders, workerVars
  <2>4. Len(queue) <= sem' + h + (g - 1)
    BY <2>1, <2>2, <2>3, <1>0, ReleasedCovers
  <2>5. QED BY <2>2, <2>3, <2>4
<1>6. CASE Pause \/ Resume \/ Shutdown \/ Free \/ UNCHANGED vars
  BY <1>1, <1>6 DEF Pause, Resume, Shutdown, Free, vars, Holders, Signallers,
                    workerVars, submitVars
<1>7. CASE ShutdownSignal
  <2>1. sem' = Released /\ UNCHANGED <<Holders, Signallers, queue>>
    BY <1>7 DEF ShutdownSignal, Holders, Signallers, workerVars, submitVars
  <2>2. Len(queue) <= sem' + h + g
    BY <2>1, <1>0, ReleasedCovers
  <2>3. QED BY <2>1, <2>2
<1>8. QED BY <1>2, <1>3, <1>4, <1>5, <1>6, <1>7 DEF Submitter, Owner

(* No interleaving of submit, the workers, pause and shutdown loses the     *)
(* wake-up of a queued task, for the POSIX semaphore and for the bounded    *)
(* Windows one.                                                             *)
THEOREM PoolNeverLosesWakeup == Spec => [](NoLostWakeup /\ WithinCapacity)
<1>1. Init => TokensCover
  <2> SUFFICES ASSUME Init PROVE TokensCover
    OBVIOUS
  <2>1. Holders = {} /\ Signallers = {} /\ Len(queue) = 0
    BY EmptySeq DEF Init, Holders, Signallers
  <2>2. QED BY <2>1, FS_EmptySet, PoolAssumption
            DEF Init, TokensCover, NoLostWakeup, WithinCapacity, PoolAssumption
<1>2. TypeOK /\ TypeOK' /\ TokensCover /\ [Next]_vars => TokensCover'
  BY WorkerKeepsTokens, OthersKeepTokens DEF Next
<1>3. TokensCover => NoLostWakeup /\ WithinCapacity
  BY DEF TokensCover
<1>4. QED BY <1>1, <1>2, <1>3, PoolTypeCorrect, PTL DEF Spec

-----------------------------------------------------------------------------
(* One node, one place *)

(* What makes OnePlace inductive: the node a submitter has allocated and    *)
(* not yet linked is nobody else's.                                         *)
SubmittersOwn ==
    /\ \A r, s \in Submitters : stask[r] = stask[s] /\ stask[r] # None => r = s
    /\ \A s \in Submitters : stask[s] \notin done
    /\ \A s \in Submitters, w \in Workers : stask[s] # None => stask[s] # wtask[w]
    /\ \A s \in Submitters, i \in DOMAIN queue : queue[i] # stask[s]

OnePlaceInv == OnePlace /\ SubmittersOwn

LEMMA OnePlaceStep ==
  ASSUME TypeOK, TypeOK', OnePlaceInv, [Next]_vars
  PROVE  OnePlaceInv'
<1> USE DEF OnePlaceInv, OnePlace, SubmittersOwn
<1>0. /\ None \notin Tasks
      /\ \A w \in Workers : wtask[w] = None \/ wtask[w] \in Tasks
      /\ DOMAIN queue = 1..Len(queue) /\ Len(queue) \in Nat
      /\ \A i \in 1..Len(queue) : queue[i] \in Tasks
      /\ wtask \in [Workers -> Tasks \cup {None}]
      /\ stask \in [Submitters -> Tasks \cup {None}]
      /\ done \subseteq Tasks
  BY PoolAssumption, LenProperties, ElementOfSeq DEF PoolAssumption, TypeOK
<1>1. CASE UNCHANGED <<queue, wtask, stask, done>>
  BY <1>1
<1>2. ASSUME NEW w \in Workers, Pop(w) PROVE OnePlaceInv'
  <2>1. wtask[w] = None
    BY <1>2, <1>0 DEF Pop, Goto, TypeOK
  <2>2. /\ queue # <<>> /\ queue' = Tail(queue) /\ stask' = stask /\ done' = done
        /\ wtask' = [wtask EXCEPT ![w] = Head(queue)]
    BY <1>2 DEF Pop, submitVars
  <2>3. /\ Len(queue) > 0 /\ DOMAIN queue' = 1..(Len(queue) - 1)
        /\ Head(queue) = queue[1]
        /\ \A i \in 1..(Len(queue) - 1) : queue'[i] = queue[i + 1]
    BY <2>2, <1>0, HeadTailProperties, EmptySeq, LenProperties DEF TypeOK
  <2>4. \A i \in DOMAIN queue' :
            /\ i + 1 \in DOMAIN queue /\ i + 1 # 1 /\ queue'[i] = queue[i + 1]
    BY <2>3, <1>0
  <2>5. 1 \in DOMAIN queue /\ queue[1] \in Tasks
    BY <2>3, <1>0
  <2>6. \A v \in Workers : wtask'[v] = IF v = w THEN queue[1] ELSE wtask[v]
    BY <2>2, <2>3, <1>0
  <2>7. \A i, j \in DOMAIN queue' : queue'[i] = queue'[j] => i = j
    <3> SUFFICES ASSUME NEW i \in DOMAIN queue', NEW j \in DOMAIN queue',
                        queue'[i] = queue'[j]
                 PROVE  i = j
      OBVIOUS
    <3>1. i + 1 = j + 1
      BY <2>4
    <3>2. QED BY <3>1, <2>3
  <2>8. QED BY <2>1, <2>2, <2>4, <2>5, <2>6, <2>7, <1>0
<1>3. ASSUME NEW w \in Workers, Run(w) PROVE OnePlaceInv'
  <2>1. wtask[w] \in Tasks
    BY <1>3 DEF Run, Goto, TypeOK
  <2>2. /\ queue' = queue /\ stask' = stask /\ done' = done \cup {wtask[w]}
        /\ wtask' = [wtask EXCEPT ![w] = None]
    BY <1>3 DEF Run, submitVars
  <2>3. \A v \in Workers : wtask'[v] = IF v = w THEN None ELSE wtask[v]
    BY <2>2, <1>0
  <2>4. QED BY <2>1, <2>2, <2>3, <1>0
<1>4. ASSUME NEW s \in Submitters, NEW t \in Tasks, Submit(s, t) PROVE OnePlaceInv'
  <2>1. /\ queue' = queue /\ wtask' = wtask /\ done' = done /\ Fresh(t)
        /\ stask' = [stask EXCEPT ![s] = t]
    BY <1>4 DEF Submit, workerVars
  <2>2. \A r \in Submitters : stask'[r] = IF r = s THEN t ELSE stask[r]
    BY <2>1, <1>0
  <2>3. QED BY <2>1, <2>2, <1>0 DEF Fresh, InFlight
<1>5. ASSUME NEW s \in Submitters, Enqueue(s) PROVE OnePlaceInv'
  <2>1. stask[s] \in Tasks
    BY <1>5 DEF Enqueue, TypeOK
  <2>2. /\ queue' = Append(queue, stask[s]) /\ wtask' = wtask /\ done' = done
        /\ stask' = [stask EXCEPT ![s] = None]
    BY <1>5 DEF Enqueue, workerVars
  <2>3. /\ DOMAIN queue' = 1..(Len(queue) + 1)
        /\ \A i \in 1..Len(queue) : queue'[i] = queue[i]
        /\ queue'[Len(queue) + 1] = stask[s]
    BY <2>1, <2>2, <1>0, AppendProperties, LenProperties DEF TypeOK
  <2>4. \A i \in DOMAIN queue' : i \in DOMAIN queue \/ i = Len(queue) + 1
    BY <2>3, <1>0
  <2>5. \A r \in Submitters : stask'[r] = IF r = s THEN None ELSE stask[r]
    BY <2>2, <1>0
  <2>6. \A i, j \in DOMAIN queue' : queue'[i] = queue'[j] => i = j
    BY <2>3, <2>4, <1>0
  <2>7. \A i \in DOMAIN queue' : queue'[i] = stask[s] \/ (i \in DOMAIN queue /\ queue'[i] = queue[i])
    BY <2>3, <2>4, <1>0
  <2>8. \A i \in DOMAIN queue', r \in Submitters : queue'[i] # stask'[r]
    BY <2>7, <2>5, <2>1, <1>0
  <2>9. QED BY <2>1, <2>2, <2>5, <2>6, <2>7, <2>8, <1>0
<1>6. ASSUME NEW s \in Submitters, Exhausted(s) PROVE OnePlaceInv'
  <2>1. /\ queue' = queue /\ wtask' = wtask /\ done' = done
        /\ stask' = [stask EXCEPT ![s] = None]
    BY <1>6 DEF Exhausted, workerVars
  <2>2. \A r \in Submitters : stask'[r] = IF r = s THEN None ELSE stask[r]
    BY <2>1, <1>0
  <2>3. QED BY <2>1, <2>2, <1>0
<1>7. ASSUME NEW w \in Workers,
             \/ Take(w) \/ TimeOut(w) \/ CheckEvent(w) \/ PutBack(w)
             \/ PassPause(w) \/ PopNothing(w) \/ Load(w) \/ Store(w)
      PROVE UNCHANGED <<queue, wtask, stask, done>>
  BY <1>7 DEF Take, TimeOut, CheckEvent, PutBack, PassPause, PopNothing, Load, Store, submitVars
<1>8. ASSUME \/ \E s \in Submitters : Signal(s)
             \/ Pause \/ Resume \/ Shutdown \/ Owner \/ UNCHANGED vars
      PROVE UNCHANGED <<queue, wtask, stask, done>>
  BY <1>8 DEF Signal, Pause, Resume, Shutdown, Owner, ShutdownSignal, Free, vars,
              workerVars, submitVars
<1>9. QED BY <1>1, <1>2, <1>3, <1>4, <1>5, <1>6, <1>7, <1>8 DEF Next, Worker, Submitter

(* No task node is ever run twice, run and queued at once, or touched after *)
(* it was freed.                                                            *)
THEOREM PoolOnePlace == Spec => []OnePlace
<1>1. Init => OnePlaceInv
  BY PoolAssumption DEF Init, OnePlaceInv, OnePlace, SubmittersOwn, PoolAssumption
<1>2. TypeOK /\ TypeOK' /\ OnePlaceInv /\ [Next]_vars => OnePlaceInv'
  BY OnePlaceStep
<1>3. OnePlaceInv => OnePlace
  BY DEF OnePlaceInv
<1>4. QED BY <1>1, <1>2, <1>3, PoolTypeCorrect, PTL DEF Spec

-----------------------------------------------------------------------------
(* The pool implements TaskQueue *)

Running == {wtask[w] : w \in Workers} \ {None}

LEMMA RefinementStep ==
  ASSUME TypeOK, OnePlaceInv, [Next]_vars
  PROVE  [TQ!Next]_TQ!vars
<1> USE DEF TQ!vars
<1>0. /\ None \notin Tasks
      /\ wtask \in [Workers -> Tasks \cup {None}]
  BY PoolAssumption DEF PoolAssumption, TypeOK
<1>1. CASE UNCHANGED <<queue, wtask, done>>
  BY <1>1
<1>2. ASSUME NEW w \in Workers, Pop(w) PROVE TQ!Start
  <2>1. wtask[w] = None
    BY <1>2, <1>0 DEF Pop, Goto, TypeOK
  <2>2. /\ queue # <<>> /\ queue' = Tail(queue) /\ done' = done
        /\ wtask' = [wtask EXCEPT ![w] = Head(queue)]
    BY <1>2 DEF Pop
  <2>3. Head(queue) \in Tasks
    BY <2>2, HeadTailProperties DEF TypeOK
  <2>4. \A v \in Workers : wtask'[v] = IF v = w THEN Head(queue) ELSE wtask[v]
    BY <2>2, <1>0
  <2>5. Running' = Running \cup {Head(queue)}
    BY <2>1, <2>3, <2>4, <1>0 DEF Running
  <2>6. QED BY <2>2, <2>5 DEF TQ!Start, Running
<1>3. ASSUME NEW w \in Workers, NEW t \in Tasks, wtask[w] = t, Run(w) PROVE TQ!Finish(t)
  <2>2. /\ queue' = queue /\ done' = done \cup {t}
        /\ wtask' = [wtask EXCEPT ![w] = None]
    BY <1>3 DEF Run
  <2>3. \A v \in Workers : wtask'[v] = IF v = w THEN None ELSE wtask[v]
    BY <2>2, <1>0
  <2>4. \A v \in Workers : wtask[v] = t => v = w
    BY <1>3, <1>0 DEF OnePlaceInv, OnePlace
  <2>5. Running' = Running \ {t} /\ t \in Running
    BY <1>3, <2>3, <2>4, <1>0 DEF Running
  <2>6. QED BY <2>2, <2>5 DEF TQ!Finish, Running
<1>4. ASSUME NEW s \in Submitters, Enqueue(s) PROVE TQ!Accept(stask[s]) /\ stask[s] \in Tasks
  <2>1. stask[s] \in Tasks
    BY <1>4 DEF Enqueue, TypeOK
  <2>2. /\ queue' = Append(queue, stask[s]) /\ wtask' = wtask /\ done' = done
        /\ Len(queue) < QueueSize
    BY <1>4 DEF Enqueue, workerVars
  <2>3. stask[s] \notin Running \cup done /\ \A i \in DOMAIN queue : queue[i] # stask[s]
    BY <2>1, <1>0 DEF OnePlaceInv, SubmittersOwn, Running
  <2>4. QED BY <2>1, <2>2, <2>3 DEF TQ!Accept, Running
<1>5. ASSUME NEW w \in Workers,
             \/ Take(w) \/ TimeOut(w) \/ CheckEvent(w) \/ PutBack(w)
             \/ PassPause(w) \/ PopNothing(w) \/ Load(w) \/ Store(w)
      PROVE UNCHANGED <<queue, wtask, done>>
  BY <1>5 DEF Take, TimeOut, CheckEvent, PutBack, PassPause, PopNothing, Load, Store
<1>6. ASSUME NEW s \in Submitters,
             Exhausted(s) \/ Signal(s) \/ \E t \in Tasks : Submit(s, t)
      PROVE UNCHANGED <<queue, wtask, done>>
  BY <1>6 DEF Exhausted, Signal, Submit, workerVars
<1>7. ASSUME Pause \/ Resume \/ Shutdown \/ Owner \/ UNCHANGED vars
      PROVE UNCHANGED <<queue, wtask, done>>
  BY <1>7 DEF Pause, Resume, Shutdown, Owner, ShutdownSignal, Free, vars, workerVars
<1>8. ASSUME NEW w \in Workers, Worker(w) PROVE TQ!Next \/ UNCHANGED <<queue, wtask, done>>
  <2>1. CASE Pop(w)
    BY <1>2, <2>1 DEF TQ!Next
  <2>2. CASE Run(w)
    <3>1. PICK t \in Tasks : wtask[w] = t
      BY <2>2 DEF Run, Goto, TypeOK
    <3>2. TQ!Finish(t)
      BY <1>3, <2>2, <3>1
    <3>3. QED BY <3>2 DEF TQ!Next
  <2>3. QED BY <1>5, <1>8, <2>1, <2>2 DEF Worker
<1>9. ASSUME NEW s \in Submitters, Submitter(s) \/ \E t \in Tasks : Submit(s, t)
      PROVE TQ!Next \/ UNCHANGED <<queue, wtask, done>>
  BY <1>4, <1>6, <1>9 DEF Submitter, TQ!Next
<1>10. TQ!Next \/ UNCHANGED <<queue, wtask, done>>
  BY <1>7, <1>8, <1>9 DEF Next
<1>11. QED BY <1>1, <1>10

(* Whatever the interleaving, the callers see a bounded FIFO queue whose    *)
(* tasks are each started once, in order.                                   *)
THEOREM PoolImplementsTaskQueue == Spec => ImplementsTaskQueue
<1>1. Init => TQ!Init
  <2> SUFFICES ASSUME Init PROVE TQ!Init
    OBVIOUS
  <2>1. {wtask[w] : w \in Workers} \ {None} = {}
    BY DEF Init
  <2>2. QED BY <2>1 DEF Init, TQ!Init
<1>2. Init => OnePlaceInv
  BY PoolAssumption DEF Init, OnePlaceInv, OnePlace, SubmittersOwn, PoolAssumption
<1>3. TypeOK /\ TypeOK' /\ OnePlaceInv /\ [Next]_vars => OnePlaceInv'
  BY OnePlaceStep
<1>4. TypeOK /\ OnePlaceInv /\ [Next]_vars => [TQ!Next]_TQ!vars
  BY RefinementStep
<1>5. QED BY <1>1, <1>2, <1>3, <1>4, PoolTypeCorrect, PTL DEF Spec, ImplementsTaskQueue, TQ!Spec

-----------------------------------------------------------------------------
(* Shutdown and pause *)

(* The event is what workers leave by, and only a shutdown sets it.         *)
QuietInv == QuietAfterFree /\ (event => opc # "open")

LEMMA QuietStep ==
  ASSUME TypeOK, WaitModes = {TRUE}, QuietInv, [Next]_vars
  PROVE  QuietInv'
<1> USE DEF QuietInv, QuietAfterFree
<1>1. ASSUME NEW w \in Workers, Worker(w) PROVE QuietInv'
  <2>1. opc' = opc /\ (event' => event)
    <3>1. CASE CheckEvent(w)
      BY <3>1 DEF CheckEvent
    <3>2. CASE ~CheckEvent(w)
      <4>1. UNCHANGED ownerVars
        BY <3>2, <1>1 DEF Worker, Take, TimeOut, PutBack, PassPause, Pop, PopNothing, Load, Run, Store
      <4>2. QED BY <4>1 DEF ownerVars
    <3>3. QED BY <3>1, <3>2
  <2>2. wpc[w] # "exited" \/ wpc' = wpc
    BY <1>1 DEF Worker, Take, TimeOut, CheckEvent, PutBack, PassPause, Pop, PopNothing, Load, Run,
                Store, Goto, Counter
  <2>3. wpc'[w] = "exited" => event \/ wpc' = wpc
    BY <1>1 DEF TypeOK, Worker, Take, TimeOut, CheckEvent, PutBack, PassPause, Pop, PopNothing, Load,
                Run, Store, Goto, Counter
  <2>4. \A v \in Workers \ {w} : wpc'[v] = wpc[v]
    BY <1>1 DEF TypeOK, Worker, Take, TimeOut, CheckEvent, PutBack, PassPause, Pop, PopNothing, Load,
                Run, Store, Goto
  <2>5. QED BY <2>1, <2>2, <2>3, <2>4
<1>2. ASSUME NEW s \in Submitters,
             Submitter(s) \/ \E t \in Tasks : Submit(s, t)
      PROVE QuietInv'
  BY <1>2 DEF Submitter, Enqueue, Exhausted, Signal, Submit, workerVars, ownerVars
<1>3. CASE Pause \/ Resume \/ Shutdown \/ Owner \/ UNCHANGED vars
  BY <1>3 DEF Pause, Resume, Shutdown, Owner, ShutdownSignal, Free, vars, workerVars, submitVars,
              ownerVars
<1>4. QED BY <1>1, <1>2, <1>3 DEF Next

(* A waiting shutdown frees the pool under nobody's feet, and no worker     *)
(* leaves a pool that is not being shut down, for any number of workers.    *)
THEOREM PoolQuietAfterFree ==
  ASSUME WaitModes = {TRUE}
  PROVE  Spec => []QuietAfterFree
<1>1. Init => QuietInv
  BY DEF Init, QuietInv, QuietAfterFree
<1>2. TypeOK /\ QuietInv /\ [Next]_vars => QuietInv'
  BY QuietStep
<1>3. QuietInv => QuietAfterFree
  BY DEF QuietInv
<1>4. QED BY <1>1, <1>2, <1>3, PoolTypeCorrect, PTL DEF Spec

Popping == {w \in Workers : wpc[w] = "pop"}

LEMMA PauseStep ==
  ASSUME TypeOK, TypeOK', PauseTakesHold, [Next]_vars
  PROVE  PauseTakesHold'
<1> DEFINE p == Cardinality(Popping)
           n == Cardinality(Workers)
<1>0. /\ IsFiniteSet(Workers) /\ n \in Nat
      /\ IsFiniteSet(Popping) /\ p \in Nat
      /\ Cardinality(Popping') \in Nat /\ Cardinality(Popping') <= n
      /\ late \in Nat /\ late' \in Nat
  <2>1. IsFiniteSet(Workers) /\ Popping \in SUBSET Workers /\ Popping' \in SUBSET Workers
    BY PoolAssumption DEF PoolAssumption, Popping
  <2>2. QED BY <2>1, FS_Subset, FS_CardinalityType DEF TypeOK
<1>1. PauseTakesHold <=> (paused => late + p <= n)
  BY DEF PauseTakesHold, Popping
<1>2. PauseTakesHold' <=> (paused' => late' + Cardinality(Popping') <= n)
  BY DEF PauseTakesHold, Popping
<1>3. ASSUME paused' => paused /\ late' = late, Popping' \subseteq Popping PROVE PauseTakesHold'
  <2>1. Cardinality(Popping') <= p
    BY <1>3, <1>0, FS_Subset
  <2>2. QED BY <2>1, <1>0, <1>1, <1>2, <1>3
<1>4. ASSUME NEW w \in Workers, Worker(w) PROVE PauseTakesHold'
  <2>1. CASE PassPause(w)
    BY <2>1, <1>2 DEF PassPause
  <2>2. CASE Pop(w)
    <3>1. w \in Popping /\ Popping' = Popping \ {w}
      BY <2>2 DEF Pop, Goto, Popping, TypeOK
    <3>2. Cardinality(Popping') = p - 1
      BY <3>1, <1>0, FS_RemoveElement
    <3>3. paused' = paused /\ late' <= late + 1
      BY <2>2, <1>0 DEF Pop
    <3>4. QED BY <3>2, <3>3, <1>0, <1>1, <1>2
  <2>3. CASE ~PassPause(w) /\ ~Pop(w)
    <3>1. paused' = paused /\ late' = late
      BY <2>3, <1>4 DEF Worker, Take, TimeOut, CheckEvent, PutBack, PopNothing, Load, Run, Store
    <3>2. Popping' \subseteq Popping
      BY <2>3, <1>4 DEF Worker, Take, TimeOut, CheckEvent, PutBack, PopNothing, Load, Run, Store,
                        Goto, Counter, Popping, TypeOK
    <3>3. QED BY <3>1, <3>2, <1>3
  <2>4. QED BY <2>1, <2>2, <2>3
<1>5. ASSUME NEW s \in Submitters,
             Submitter(s) \/ \E t \in Tasks : Submit(s, t)
      PROVE PauseTakesHold'
  BY <1>5, <1>3 DEF Submitter, Enqueue, Exhausted, Signal, Submit, workerVars, Popping
<1>6. CASE Pause
  BY <1>6, <1>0, <1>2 DEF Pause
<1>7. CASE Resume \/ Shutdown \/ Owner \/ UNCHANGED vars
  BY <1>7, <1>3 DEF Resume, Shutdown, Owner, ShutdownSignal, Free, vars, workerVars, Popping
<1>8. QED BY <1>4, <1>5, <1>6, <1>7 DEF Next

(* However many workers there are, a pause lets each of them start one more *)
(* task at most.                                                            *)
THEOREM PoolPauses == Spec => []PauseTakesHold
<1>1. Init => PauseTakesHold
  BY DEF Init, PauseTakesHold
<1>2. TypeOK /\ TypeOK' /\ PauseTakesHold /\ [Next]_vars => PauseTakesHold'
  BY PauseStep
<1>3. QED BY <1>1, <1>2, PoolTypeCorrect, PTL DEF Spec

-----------------------------------------------------------------------------
(* The statistics *)

(* Workers whose task is among those done and not yet counted.  A counter   *)
(* that one of them has loaded leaves room for all of them, so that storing *)
(* it late can only lose updates.                                           *)
Uncounted == {w \in Workers : wpc[w] \in {"dec", "cmp"}}
CountInv ==
    /\ IsFiniteSet(done)
    /\ stats.completed + Cardinality(Uncounted) <= Cardinality(done)
    /\ \A w \in Workers : wpc[w] = "cmp" /\ reg[w] # None
           => reg[w] + Cardinality(Uncounted) <= Cardinality(done)

LEMMA CountStep ==
  ASSUME TypeOK, TypeOK', OnePlaceInv, CountInv, [Next]_vars
  PROVE  CountInv'
<1> DEFINE u == Cardinality(Uncounted)
           d == Cardinality(done)
<1>0. /\ IsFiniteSet(Uncounted) /\ u \in Nat /\ IsFiniteSet(done) /\ d \in Nat
      /\ stats.completed \in Int /\ None \notin Int
      /\ \A w \in Workers : reg[w] # None => reg[w] \in Int
  <2>1. IsFiniteSet(Workers) /\ Uncounted \in SUBSET Workers
    BY PoolAssumption DEF PoolAssumption, Uncounted
  <2>2. QED BY <2>1, FS_Subset, FS_CardinalityType, PoolAssumption DEF TypeOK, CountInv, PoolAssumption
<1>1. ASSUME UNCHANGED <<done, Uncounted, stats>>,
             \A w \in Workers : wpc'[w] = "cmp" /\ reg'[w] # None =>
                \/ wpc[w] = "cmp" /\ reg'[w] = reg[w]
                \/ reg'[w] = stats.completed
      PROVE CountInv'
  BY <1>1, <1>0 DEF CountInv
<1>2. ASSUME NEW w \in Workers, Worker(w) PROVE CountInv'
  <2>1. CASE Run(w)
    <3>1. Uncounted' = Uncounted \cup {w} /\ w \notin Uncounted
      BY <2>1 DEF Run, Goto, Uncounted, TypeOK
    <3>2. done' = done \cup {wtask[w]} /\ wtask[w] \notin done
      BY <2>1 DEF Run, OnePlaceInv, OnePlace
    <3>3. Cardinality(Uncounted') = u + 1 /\ Cardinality(done') = d + 1 /\ IsFiniteSet(done')
      BY <3>1, <3>2, <1>0, FS_AddElement
    <3>4. /\ stats' = stats /\ reg' = reg
          /\ \A v \in Workers : wpc'[v] = "cmp" => wpc[v] = "cmp"
      BY <2>1 DEF Run, Goto, TypeOK
    <3>5. QED BY <3>3, <3>4, <1>0 DEF CountInv
  <2>2. CASE Load(w)
    <3>1. UNCHANGED <<done, Uncounted, stats, wpc>>
      BY <2>2 DEF Load, Uncounted
    <3>2. \A v \in Workers : wpc[v] = "cmp" => reg'[v] = reg[v] \/ reg'[v] = stats.completed
      BY <2>2 DEF Load, Counter, TypeOK
    <3>3. QED BY <3>1, <3>2, <1>1
  <2>3. CASE Store(w) /\ wpc[w] = "cmp"
    <3>1. Uncounted' = Uncounted \ {w} /\ w \in Uncounted
      BY <2>3 DEF Store, Counter, Goto, Uncounted, TypeOK
    <3>2. Cardinality(Uncounted') = u - 1
      BY <3>1, <1>0, FS_RemoveElement
    <3>3. done' = done /\ stats'.completed = reg[w] + 1 /\ reg[w] # None
      BY <2>3 DEF Store, Counter, TypeOK
    <3>4. \A v \in Workers : wpc'[v] = "cmp" /\ reg'[v] # None => wpc[v] = "cmp" /\ reg'[v] = reg[v]
      BY <2>3 DEF Store, Counter, Goto, TypeOK
    <3>5. QED BY <2>3, <3>2, <3>3, <3>4, <1>0 DEF CountInv
  <2>4. CASE Store(w) /\ wpc[w] # "cmp"
    <3>1. done' = done /\ Uncounted' = Uncounted /\ stats'.completed = stats.completed
      BY <2>4 DEF Store, Counter, Goto, Uncounted, TypeOK
    <3>2. \A v \in Workers : wpc'[v] = "cmp" /\ reg'[v] # None => wpc[v] = "cmp" /\ reg'[v] = reg[v]
      BY <2>4 DEF Store, Counter, Goto, TypeOK
    <3>3. QED BY <3>1, <3>2, <1>0 DEF CountInv
  <2>5. CASE ~Run(w) /\ ~Load(w) /\ ~Store(w)
    <3>1. UNCHANGED <<done, stats, reg>>
      BY <2>5, <1>2 DEF Worker, Take, TimeOut, CheckEvent, PutBack, PassPause, Pop, PopNothing
    <3>2. /\ wpc[w] \notin {"dec", "cmp"} /\ wpc'[w] \notin {"dec", "cmp"}
          /\ \A v \in Workers \ {w} : wpc'[v] = wpc[v]
      BY <2>5, <1>2 DEF Worker, Take, TimeOut, CheckEvent, PutBack, PassPause, Pop, PopNothing,
                        Goto, TypeOK
    <3>3. UNCHANGED Uncounted
      BY <3>2 DEF Uncounted
    <3>4. QED BY <3>1, <3>2, <3>3, <1>1
  <2>6. QED BY <2>1, <2>2, <2>3, <2>4, <2>5
<1>3. CASE ~\E w \in Workers : Worker(w)
  <2>1. UNCHANGED workerVars
    BY <1>3 DEF Next, Submitter, Enqueue, Exhausted, Signal, Submit, Pause, Resume, Shutdown,
                Owner, ShutdownSignal, Free, vars
  <2>2. QED BY <2>1, <1>1 DEF workerVars, Uncounted
<1>4. QED BY <1>2, <1>3

(* However many workers race on it, completed_tasks never runs ahead of the *)
(* tasks that have run.                                                     *)
THEOREM PoolNeverOvercounts == Spec => []NeverOvercounts
<1>1. Init => OnePlaceInv
  BY PoolAssumption DEF Init, OnePlaceInv, OnePlace, SubmittersOwn, PoolAssumption
<1>2. TypeOK /\ TypeOK' /\ OnePlaceInv /\ [Next]_vars => OnePlaceInv'
  BY OnePlaceStep
<1>3. Init => CountInv
  <2> SUFFICES ASSUME Init PROVE CountInv
    OBVIOUS
  <2>1. Uncounted = {} /\ done = {}
    BY DEF Init, Uncounted
  <2>2. QED BY <2>1, FS_EmptySet DEF Init, CountInv
<1>4. TypeOK /\ TypeOK' /\ OnePlaceInv /\ CountInv /\ [Next]_vars => CountInv'
  BY CountStep
<1>5. TypeOK /\ CountInv => NeverOvercounts
  <2> SUFFICES ASSUME TypeOK, CountInv PROVE NeverOvercounts
    OBVIOUS
  <2>1. IsFiniteSet(Workers) /\ Uncounted \in SUBSET Workers
    BY PoolAssumption DEF PoolAssumption, Uncounted
  <2>2. Cardinality(Uncounted) \in Nat /\ Cardinality(done) \in Nat
    BY <2>1, FS_Subset, FS_CardinalityType DEF CountInv
  <2>3. QED BY <2>2 DEF TypeOK, CountInv, NeverOvercounts
<1>6. QED BY <1>1, <1>2, <1>3, <1>4, <1>5, PoolTypeCorrect, PTL DEF Spec
=============================================================================
