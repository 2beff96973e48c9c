----------------------------- MODULE TaskQueue -----------------------------
(***************************************************************************)
(* What a thread pool promises its callers: tasks wait in a bounded FIFO    *)
(* backlog, each one is started once, in the order it was accepted, and     *)
(* runs to its end.  Workers, semaphore, pausing and shutdown do not show.  *)
(***************************************************************************)
EXTENDS Naturals, Sequences

CONSTANTS Tasks, Capacity

VARIABLES backlog,   \* tasks accepted and not yet started, oldest first
          running,   \* tasks being executed
          done       \* tasks that have returned

vars == <<backlog, running, done>>

Init == backlog = <<>> /\ running = {} /\ done = {}

Accept(t) ==
    /\ Len(backlog) < Capacity
    /\ t \notin running \cup done
    /\ \A i \in DOMAIN backlog : backlog[i] # t
    /\ backlog' = Append(backlog, t)
    /\ UNCHANGED <<running, done>>

Start ==
    /\ backlog # <<>>
    /\ backlog' = Tail(backlog)
    /\ running' = running \cup {Head(backlog)}
    /\ UNCHANGED done

Finish(t) ==
    /\ t \in running
    /\ running' = running \ {t}
    /\ done' = done \cup {t}
    /\ UNCHANGED backlog

Next == Start \/ \E t \in Tasks : Accept(t) \/ Finish(t)

Spec == Init /\ [][Next]_vars
=============================================================================
