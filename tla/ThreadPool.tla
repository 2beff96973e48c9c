----------------------------- MODULE ThreadPool -----------------------------
(***************************************************************************)
(* The worker pool of shared/thread_pool.c, from a successful               *)
(* ps14_thread_pool_init on.  Each worker runs tpw, each submitter runs     *)
(* ps14_thread_pool_submit, the owner pauses, resumes and shuts down.       *)
(* A critical section of the queue mutex qm is one step; everything the     *)
(* code does outside it (the pause flag, the semaphore, the event, the      *)
(* statistics) is a step of its own.  queue_size is Len(queue).             *)
(***************************************************************************)
EXTENDS Integers, Sequences, FiniteSets

CONSTANTS Workers, Submitters,
          Tasks,       \* task nodes: every submission allocates a fresh one
          QueueSize,   \* qs
          SemMax,      \* maximum count of the semaphore
          WaitModes,   \* the values of shutdown's argument w
          AutoReset,   \* TRUE: a successful wait resets the event se
          None

ASSUME PoolAssumption ==
    /\ IsFiniteSet(Workers) /\ Workers # {}
    /\ IsFiniteSet(Submitters)
    /\ QueueSize \in Nat \ {0}
    /\ SemMax \in Nat /\ SemMax >= QueueSize
    /\ WaitModes \subseteq BOOLEAN /\ AutoReset \in BOOLEAN
    /\ None \notin Tasks \cup Int

VARIABLES queue, sem, paused,
          event,       \* se is set
          stats,       \* active_threads and completed_tasks
          wpc, wtask,  \* per worker: place in tpw, the task t it popped
          reg,         \* per worker: a counter loaded and not yet stored back
          spc, stask,  \* per submitter: place in submit, the node it allocated
          opc,         \* the owner's place in shutdown
          signals,     \* semaphore signals shutdown has still to give
          late,        \* history: tasks started since the pool was paused
          done         \* history: tasks whose function has returned

workerVars == <<stats, wpc, wtask, reg, done>>
submitVars == <<spc, stask>>
ownerVars  == <<event, opc, signals>>
vars == <<queue, sem, paused, late, workerVars, submitVars, ownerVars>>

Init ==
    /\ queue = <<>> /\ sem = 0 /\ paused = FALSE /\ late = 0 /\ event = FALSE
    /\ stats = [active |-> 0, completed |-> 0]
    /\ wpc = [w \in Workers |-> "wait"]
    /\ wtask = [w \in Workers |-> None]
    /\ reg = [w \in Workers |-> None]
    /\ spc = [s \in Submitters |-> "idle"]
    /\ stask = [s \in Submitters |-> None]
    /\ opc = "open" /\ signals = 0 /\ done = {}

Released == IF sem < SemMax THEN sem + 1 ELSE sem

-----------------------------------------------------------------------------
(* The worker loop *)

Goto(w, from, to) == wpc[w] = from /\ wpc' = [wpc EXCEPT ![w] = to]

Take(w) ==
    /\ sem > 0 /\ sem' = sem - 1
    /\ Goto(w, "wait", "got")
    /\ UNCHANGED <<queue, paused, late, stats, wtask, reg, done, submitVars, ownerVars>>

TimeOut(w) ==
    /\ sem = 0
    /\ Goto(w, "wait", "timedout")
    /\ UNCHANGED <<queue, sem, paused, late, stats, wtask, reg, done, submitVars, ownerVars>>

\* Mutant: any timed-out wait ends the worker.
CheckEventAlways(w) ==
    /\ Goto(w, "timedout", "exited")
    /\ UNCHANGED <<queue, sem, paused, late, stats, wtask, reg, done, submitVars, ownerVars>>

CheckEvent(w) ==
    /\ Goto(w, "timedout", IF event THEN "exited" ELSE "wait")
    /\ event' = (event /\ ~AutoReset)
    /\ UNCHANGED <<queue, sem, paused, late, stats, wtask, reg, done, submitVars, opc, signals>>

\* Mutant: the token is not given back.
PutBackKeepsToken(w) ==
    /\ paused
    /\ Goto(w, "got", "wait")
    /\ UNCHANGED <<queue, sem, paused, late, stats, wtask, reg, done, submitVars, ownerVars>>

PutBack(w) ==
    /\ paused
    /\ sem' = Released
    /\ Goto(w, "got", "wait")
    /\ UNCHANGED <<queue, paused, late, stats, wtask, reg, done, submitVars, ownerVars>>

\* Mutant: the pause flag is not looked at.
PassPauseBlindly(w) ==
    /\ Goto(w, "got", "pop")
    /\ UNCHANGED <<queue, sem, paused, late, stats, wtask, reg, done, submitVars, ownerVars>>

PassPause(w) ==
    /\ ~paused
    /\ Goto(w, "got", "pop")
    /\ UNCHANGED <<queue, sem, paused, late, stats, wtask, reg, done, submitVars, ownerVars>>

\* Mutant: the head is read and not unlinked.
PopKeepsHead(w) ==
    /\ queue # <<>>
    /\ Goto(w, "pop", "inc")
    /\ wtask' = [wtask EXCEPT ![w] = Head(queue)]
    /\ late' = IF paused THEN late + 1 ELSE late
    /\ UNCHANGED <<queue, sem, paused, stats, reg, done, submitVars, ownerVars>>

Pop(w) ==
    /\ queue # <<>>
    /\ Goto(w, "pop", "inc")
    /\ queue' = Tail(queue)
    /\ wtask' = [wtask EXCEPT ![w] = Head(queue)]
    /\ late' = IF paused THEN late + 1 ELSE late
    /\ UNCHANGED <<sem, paused, stats, reg, done, submitVars, ownerVars>>

PopNothing(w) ==
    /\ queue = <<>>
    /\ Goto(w, "pop", "wait")
    /\ UNCHANGED <<queue, sem, paused, late, stats, wtask, reg, done, submitVars, ownerVars>>

\* Mutant: a task is counted before it runs.
CounterEarly == [inc |-> [field |-> "completed", by |-> 1,  then |-> "run"],
                 dec |-> [field |-> "active",    by |-> -1, then |-> "cmp"],
                 cmp |-> [field |-> "completed", by |-> 1,  then |-> "wait"]]

(* active_threads++, active_threads--, completed_tasks++ take no lock: each  *)
(* is a load and a store that other workers can come between.               *)
Counter == [inc |-> [field |-> "active",    by |-> 1,  then |-> "run"],
            dec |-> [field |-> "active",    by |-> -1, then |-> "cmp"],
            cmp |-> [field |-> "completed", by |-> 1,  then |-> "wait"]]

Load(w) ==
    /\ wpc[w] \in DOMAIN Counter /\ reg[w] = None
    /\ reg' = [reg EXCEPT ![w] = stats[Counter[wpc[w]].field]]
    /\ UNCHANGED <<queue, sem, paused, late, stats, wpc, wtask, done, submitVars, ownerVars>>

Store(w) ==
    /\ wpc[w] \in DOMAIN Counter /\ reg[w] # None
    /\ LET c == Counter[wpc[w]]
       IN  /\ stats' = [stats EXCEPT ![c.field] = reg[w] + c.by]
           /\ Goto(w, wpc[w], c.then)
    /\ reg' = [reg EXCEPT ![w] = None]
    /\ UNCHANGED <<queue, sem, paused, late, wtask, done, submitVars, ownerVars>>

Run(w) ==
    /\ Goto(w, "run", "dec")
    /\ done' = done \cup {wtask[w]}
    /\ wtask' = [wtask EXCEPT ![w] = None]
    /\ UNCHANGED <<queue, sem, paused, late, stats, reg, submitVars, ownerVars>>

Worker(w) ==
    \/ Take(w) \/ TimeOut(w) \/ CheckEvent(w) \/ PutBack(w) \/ PassPause(w)
    \/ Pop(w) \/ PopNothing(w) \/ Load(w) \/ Run(w) \/ Store(w)

-----------------------------------------------------------------------------
(* Submission *)

InFlight == {stask[s] : s \in Submitters} \cup {wtask[w] : w \in Workers}
Fresh(t) == t \notin InFlight \cup done /\ \A i \in DOMAIN queue : queue[i] # t

(* A caller does not submit to a pool it is shutting down.  A paused pool   *)
(* refuses: PS14_ERROR_UNKNOWN and no change.                               *)
Submit(s, t) ==
    /\ opc = "open" /\ ~paused /\ Fresh(t)
    /\ spc[s] = "idle" /\ spc' = [spc EXCEPT ![s] = "append"]
    /\ stask' = [stask EXCEPT ![s] = t]
    /\ UNCHANGED <<queue, sem, paused, late, workerVars, ownerVars>>

\* Mutant: the newest task first.
EnqueueInFront(s) ==
    /\ Len(queue) < QueueSize
    /\ spc[s] = "append" /\ spc' = [spc EXCEPT ![s] = "signal"]
    /\ queue' = <<stask[s]>> \o queue
    /\ stask' = [stask EXCEPT ![s] = None]
    /\ UNCHANGED <<sem, paused, late, workerVars, ownerVars>>

Enqueue(s) ==
    /\ Len(queue) < QueueSize
    /\ spc[s] = "append" /\ spc' = [spc EXCEPT ![s] = "signal"]
    /\ queue' = Append(queue, stask[s])
    /\ stask' = [stask EXCEPT ![s] = None]
    /\ UNCHANGED <<sem, paused, late, workerVars, ownerVars>>

Exhausted(s) ==
    /\ Len(queue) >= QueueSize
    /\ spc[s] = "append" /\ spc' = [spc EXCEPT ![s] = "idle"]
    /\ stask' = [stask EXCEPT ![s] = None]
    /\ UNCHANGED <<queue, sem, paused, late, workerVars, ownerVars>>

\* Mutant: submit does not signal.
SignalForgotten(s) ==
    /\ spc[s] = "signal" /\ spc' = [spc EXCEPT ![s] = "idle"]
    /\ UNCHANGED <<queue, sem, paused, late, stask, workerVars, ownerVars>>

Signal(s) ==
    /\ spc[s] = "signal" /\ spc' = [spc EXCEPT ![s] = "idle"]
    /\ sem' = Released
    /\ UNCHANGED <<queue, paused, late, stask, workerVars, ownerVars>>

-----------------------------------------------------------------------------
(* The owner *)

Pause ==
    /\ opc = "open" /\ ~paused /\ paused' = TRUE /\ late' = 0
    /\ UNCHANGED <<queue, sem, workerVars, submitVars, ownerVars>>

Resume ==
    /\ opc = "open" /\ paused /\ paused' = FALSE /\ late' = 0
    /\ UNCHANGED <<queue, sem, workerVars, submitVars, ownerVars>>

\* Mutant: the event is not set.
ShutdownNoEvent ==
    /\ opc = "open" /\ \A s \in Submitters : spc[s] = "idle"
    /\ opc' = "signal" /\ signals' = Cardinality(Workers)
    /\ UNCHANGED <<queue, sem, paused, late, event, workerVars, submitVars>>

(* The pool dies with the call, so no submission may be under way.          *)
Shutdown ==
    /\ opc = "open" /\ \A s \in Submitters : spc[s] = "idle"
    /\ opc' = "signal" /\ event' = TRUE /\ signals' = Cardinality(Workers)
    /\ UNCHANGED <<queue, sem, paused, late, workerVars, submitVars>>

ShutdownSignal ==
    /\ opc = "signal" /\ signals > 0
    /\ signals' = signals - 1 /\ sem' = Released
    /\ UNCHANGED <<queue, paused, late, opc, event, workerVars, submitVars>>

Free ==
    /\ opc = "signal" /\ signals = 0
    /\ \E wait \in WaitModes : wait => \A w \in Workers : wpc[w] = "exited"
    /\ opc' = "freed"
    /\ UNCHANGED <<queue, sem, paused, late, event, signals, workerVars, submitVars>>

Submitter(s) == Enqueue(s) \/ Exhausted(s) \/ Signal(s)
Owner == ShutdownSignal \/ Free

Next ==
    \/ \E w \in Workers : Worker(w)
    \/ \E s \in Submitters : Submitter(s) \/ \E t \in Tasks : Submit(s, t)
    \/ Pause \/ Resume \/ Shutdown \/ Owner

(* pthread_join and WaitForMultipleObjects need nothing but the workers'    *)
(* progress; the scheduler runs every thread that can run.  Nobody has to   *)
(* call submit, pause, resume or shutdown.                                  *)
Fairness ==
    /\ \A w \in Workers : WF_vars(Worker(w))
    /\ \A s \in Submitters : WF_vars(Submitter(s))
    /\ WF_vars(Owner)

Spec == Init /\ [][Next]_vars
LiveSpec == Spec /\ Fairness

-----------------------------------------------------------------------------
(* Properties *)

(* Every variable keeps its type; in particular a worker holds a task       *)
(* exactly between popping it and running it.                               *)
TypeOK ==
    /\ queue \in Seq(Tasks) /\ sem \in 0..SemMax
    /\ paused \in BOOLEAN /\ late \in Nat /\ event \in BOOLEAN
    /\ stats \in [active : Int, completed : Int]
    /\ wpc \in [Workers -> {"wait", "timedout", "got", "pop", "inc", "run",
                            "dec", "cmp", "exited"}]
    /\ wtask \in [Workers -> Tasks \cup {None}]
    /\ \A w \in Workers : wtask[w] \in Tasks <=> wpc[w] \in {"inc", "run"}
    /\ reg \in [Workers -> Int \cup {None}]
    /\ spc \in [Submitters -> {"idle", "append", "signal"}]
    /\ stask \in [Submitters -> Tasks \cup {None}]
    /\ \A s \in Submitters : stask[s] \in Tasks <=> spc[s] = "append"
    /\ opc \in {"open", "signal", "freed"}
    /\ signals \in Nat
    /\ done \subseteq Tasks

Holders    == {w \in Workers : wpc[w] \in {"got", "pop"}}
Signallers == {s \in Submitters : spc[s] = "signal"}

(* The code appends a task under the mutex and signals after it, pops with  *)
(* a token taken before, gives a token back when paused, and ignores a      *)
(* ReleaseSemaphore that fails at the maximum: still no queued task is ever *)
(* left without a token in the semaphore, in a worker's hand or about to be *)
(* signalled, so that it cannot be forgotten while workers sleep.           *)
NoLostWakeup == Len(queue) <= sem + Cardinality(Holders) + Cardinality(Signallers)

(* The queue never grows past qs, however submitters race.                  *)
WithinCapacity == Len(queue) <= QueueSize

(* A task is in one place only: no two workers run one node, no node is     *)
(* queued again while it runs or after it was freed.                        *)
OnePlace ==
    /\ \A i, j \in DOMAIN queue : queue[i] = queue[j] => i = j
    /\ \A v, w \in Workers : wtask[v] = wtask[w] /\ wtask[v] # None => v = w
    /\ \A w \in Workers : wtask[w] \notin done
    /\ \A w \in Workers, i \in DOMAIN queue : queue[i] # wtask[w]
    /\ \A i \in DOMAIN queue : queue[i] \notin done

(* A lost update may leave completed_tasks behind the tasks that ran, never *)
(* ahead of them.                                                           *)
NeverOvercounts == stats.completed <= Cardinality(done)

(* After a shutdown that waited no worker is left that could still touch    *)
(* the freed pool, and no token was needed that nobody gave: a worker never *)
(* leaves before the event is set.                                          *)
QuietAfterFree ==
    /\ opc = "freed" => \A w \in Workers : wpc[w] = "exited"
    /\ \A w \in Workers : wpc[w] = "exited" => opc # "open"

(* Pausing stops the pool within one task per worker: only a worker that    *)
(* had read the flag before it was set still starts one.                    *)
PauseTakesHold ==
    paused => late + Cardinality({w \in Workers : wpc[w] = "pop"}) <= Cardinality(Workers)

(* The pool implements the FIFO task queue.                                 *)
TQ == INSTANCE TaskQueue WITH
        Capacity <- QueueSize, backlog <- queue,
        running <- {wtask[w] : w \in Workers} \ {None}, done <- done
ImplementsTaskQueue == TQ!Spec

(* Unless the pool stays paused or is shut down, an accepted task is run.   *)
EveryTaskRuns ==
    <>[]~paused => \A t \in Tasks :
        (\E i \in DOMAIN queue : queue[i] = t) ~> (t \in done \/ opc # "open")

(* A shutdown runs what was accepted before it, and its event reaches a     *)
(* worker, in a pool that was not left paused: the workers of a paused pool  *)
(* hand each other the tokens for ever and never see the event.             *)
ShutdownDrains ==
    (opc # "open") ~> \/ paused
                      \/ /\ queue = <<>> /\ \A w \in Workers : wtask[w] = None
                         /\ \E w \in Workers : wpc[w] = "exited"

(* "Stop async auditing": a shutdown that waits for the workers returns,    *)
(* even if nobody ever pauses the pool.                                     *)
ShutdownReturns == []~paused => ((opc # "open") ~> (opc = "freed"))

=============================================================================
