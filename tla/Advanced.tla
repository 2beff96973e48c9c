------------------------------ MODULE Advanced ------------------------------
(***************************************************************************)
(* core/advanced/advanced.c over the async auditor: the callbacks of the    *)
(* detections, a linked list under g_callbacks_mutex, and the calls that    *)
(* start and stop all detectors.  unregister unlinks the node it is given   *)
(* and then frees the one behind it, which stays in the list; what the list *)
(* becomes when malloc returns that node again is followed link by link,    *)
(* and the model ends when a freed node is read or a walk has no end.       *)
(***************************************************************************)
EXTENDS AsyncAuditor

CONSTANTS Nodes      \* heap blocks for callbacks

ASSUME NodesAssumption == IsFiniteSet(Nodes) /\ Null \notin Nodes \cup Clients

VARIABLES inited,      \* g_advanced_initialized
          enabled,     \* g_advanced_enabled
          detected,    \* g_debuggers_found > 0; nothing else is ever counted
          head,        \* g_callbacks
          next,        \* the link of every node
          live,        \* nodes that are not freed
          holder,      \* who holds g_callbacks_mutex across callbacks
          turn,        \* per client: where it is in run_all_checks
          visit,       \* per client: the node it notifies
          handles,     \* history: the callbacks registered, newest first
          told,        \* history: the callbacks the notification under way called
          clipped,     \* history: a node with another behind it was unregistered
          broken       \* a freed node was read, or a walk goes round in circles

links        == <<inited, head, next, live, handles, clipped, broken>>
checks       == <<enabled, detected, holder, turn, visit, told>>
advancedVars == <<auditorVars, links, checks>>

Init ==
    /\ AuditorInit
    /\ inited = FALSE /\ enabled = TRUE /\ detected = FALSE
    /\ head = Null /\ next = [n \in Nodes |-> Null] /\ live = {}
    /\ holder = Null
    /\ turn = [c \in Clients |-> "idle"] /\ visit = [c \in Clients |-> Null]
    /\ handles = <<>> /\ told = <<>> /\ clipped = FALSE /\ broken = FALSE

Calling(c) == turn[c] = "idle" /\ Idle(c) /\ ~broken

(* The nodes that a walk along the links passes; it goes round in circles   *)
(* if it has not ended after as many steps as there are nodes.              *)
Walk ==
    LET at[k \in 0..Cardinality(Nodes)] ==
            IF k = 0 THEN head ELSE IF at[k - 1] = Null THEN Null ELSE next[at[k - 1]]
    IN  at
Ends == Walk[Cardinality(Nodes)] = Null
Passed(k) == {Walk[j] : j \in 0..k} \ {Null}
Linked == Passed(Cardinality(Nodes))

Break ==
    /\ broken' = TRUE
    /\ UNCHANGED <<auditorVars, inited, head, next, live, handles, clipped, checks>>

-----------------------------------------------------------------------------
(* ps14_advanced_register_callback: it does not ask whether init was called. *)
\* Mutant: the new node is not linked to the ones before it.
RegisterAlone(c, n) ==
    /\ Calling(c) /\ holder = Null /\ n \notin live
    /\ head' = n /\ next' = [next EXCEPT ![n] = Null] /\ live' = live \cup {n}
    /\ handles' = <<n>> \o handles
    /\ UNCHANGED <<auditorVars, inited, clipped, broken, checks>>
Register(c, n) ==
    /\ Calling(c) /\ holder = Null /\ n \notin live
    /\ head' = n /\ next' = [next EXCEPT ![n] = head] /\ live' = live \cup {n}
    /\ handles' = <<n>> \o handles
    /\ UNCHANGED <<auditorVars, inited, clipped, broken, checks>>

(* ps14_advanced_unregister_callback unlinks the node and frees the one     *)
(* behind it, if there is one; its own node is lost.                        *)
Unlinked(k) ==
    IF k = 0 THEN head' = next[Walk[k]] /\ UNCHANGED next
    ELSE next' = [next EXCEPT ![Walk[k - 1]] = next[Walk[k]]] /\ UNCHANGED head

Unregister(c, h) ==
    /\ Calling(c) /\ holder = Null /\ h \in Range(handles)
    /\ \E k \in 0..Cardinality(Nodes) :
          /\ Walk[k] = h /\ h \notin Passed(k - 1)
          /\ IF Passed(k) \subseteq live /\ next[h] \in live \cup {Null}
             THEN /\ Unlinked(k) /\ live' = live \ {next[h]}
                  /\ handles' = RemoveFirst(handles, h)
                  /\ clipped' = (clipped \/ next[h] # Null)
                  /\ UNCHANGED <<auditorVars, inited, broken, checks>>
             ELSE Break

(* A node that the list has lost is not found: the walk ends at NULL and     *)
(* nothing happens, or it ends at a freed node or never.                    *)
UnregisterLost(c, h) ==
    /\ Calling(c) /\ holder = Null /\ h \in Range(handles) /\ h \notin Linked
    /\ ~Ends \/ ~(Linked \subseteq live)
    /\ Break

-----------------------------------------------------------------------------
(* ps14_advanced_run_all_checks with a debugger attached; without one it    *)
(* does nothing.                                                            *)

Doing(c, from, to) == ~broken /\ turn[c] = from /\ turn' = [turn EXCEPT ![c] = to]

RunAllChecks(c) ==
    /\ Calling(c) /\ enabled /\ Doing(c, "idle", "wait")
    /\ UNCHANGED <<auditorVars, links, enabled, detected, holder, visit, told>>

(* notify_callbacks holds the mutex while it calls them one after another.  *)
NotifyLock(c) ==
    /\ Doing(c, "wait", "notify") /\ holder = Null
    /\ holder' = c /\ visit' = [visit EXCEPT ![c] = head] /\ told' = <<>>
    /\ UNCHANGED <<auditorVars, links, enabled, detected>>

NotifyOne(c) ==
    /\ ~broken /\ turn[c] = "notify" /\ visit[c] # Null
    /\ IF visit[c] \in live /\ Len(told) < Cardinality(Nodes)
       THEN /\ told' = Append(told, visit[c])
            /\ visit' = [visit EXCEPT ![c] = next[visit[c]]]
            /\ UNCHANGED <<auditorVars, links, enabled, detected, holder, turn>>
       ELSE Break

NotifyUnlock(c) ==
    /\ Doing(c, "notify", "count") /\ visit[c] = Null
    /\ holder' = Null /\ told' = <<>>
    /\ UNCHANGED <<auditorVars, links, enabled, detected, visit>>

CountDetection(c) ==
    /\ Doing(c, "count", "idle") /\ detected' = TRUE
    /\ UNCHANGED <<auditorVars, links, enabled, holder, visit, told>>

SetEnabled(c, b) ==
    /\ Calling(c) /\ enabled # b /\ enabled' = b
    /\ UNCHANGED <<auditorVars, links, detected, holder, turn, visit, told>>

ResetStats(c) ==
    /\ Calling(c) /\ detected /\ detected' = FALSE
    /\ UNCHANGED <<auditorVars, links, enabled, holder, turn, visit, told>>

-----------------------------------------------------------------------------
(* ps14_advanced_init and ps14_advanced_shutdown, when no other call is     *)
(* under way.  init forgets the callbacks registered before it.             *)

InitAll ==
    /\ ~inited /\ \A c \in Clients : Calling(c)
    /\ inited' = TRUE /\ enabled' = TRUE
    /\ head' = Null /\ handles' = <<>> /\ clipped' = FALSE
    /\ ready' = TRUE /\ IF ready THEN UNCHANGED violations ELSE violations' = FALSE
    /\ UNCHANGED <<recursive, running, regions, allocated, owner, raced, worker, cursor, call, arg,
                   next, live, broken, detected, holder, turn, visit, told>>

(* The auditor is shut down first, if it is initialised.                    *)
ShutdownAll ==
    /\ inited /\ \A c \in Clients : Calling(c)
    /\ IF ready THEN StopCall("advanced")
       ELSE /\ Calls(Controller, "callbacks", "advanced")
            /\ UNCHANGED <<recursive, auditor, worker, cursor>>
    /\ UNCHANGED <<links, checks>>

FreeCallbacks ==
    /\ ~broken /\ call[Controller] = "callbacks"
    /\ IF Ends /\ Linked \subseteq live
       THEN /\ live' = live \ Linked /\ head' = Null /\ handles' = <<>> /\ clipped' = FALSE
            /\ inited' = FALSE /\ Returns(Controller)
            /\ UNCHANGED <<recursive, auditor, worker, cursor, next, broken, checks>>
       ELSE Break

-----------------------------------------------------------------------------
Whole == InitAll \/ ShutdownAll \/ FreeCallbacks

Callbacks(c) ==
    \/ \E n \in Nodes : Register(c, n) \/ Unregister(c, n) \/ UnregisterLost(c, n)
    \/ RunAllChecks(c) \/ NotifyLock(c) \/ NotifyOne(c) \/ NotifyUnlock(c) \/ CountDetection(c)
    \/ ResetStats(c) \/ \E b \in BOOLEAN : SetEnabled(c, b)

Next ==
    \/ AuditorNext /\ UNCHANGED <<links, checks>>
    \/ Whole \/ \E c \in Clients : Callbacks(c)

Spec == Init /\ [][Next]_advancedVars /\ AuditorFairness

-----------------------------------------------------------------------------
(* Properties *)

TypeOK ==
    /\ AuditorTypeOK
    /\ inited \in BOOLEAN /\ enabled \in BOOLEAN /\ detected \in BOOLEAN
    /\ head \in Nodes \cup {Null} /\ next \in [Nodes -> Nodes \cup {Null}]
    /\ live \subseteq Nodes /\ holder \in Clients \cup {Null}
    /\ turn \in [Clients -> {"idle", "wait", "notify", "count"}]
    /\ visit \in [Clients -> Nodes \cup {Null}]
    /\ handles \in Seq(Nodes) /\ told \in Seq(Nodes)
    /\ clipped \in BOOLEAN /\ broken \in BOOLEAN

(* The list is exactly the callbacks registered and not unregistered, newest *)
(* first, none of them freed, and a notification calls each of them once,   *)
(* until the first unregistration of a callback that has an older one behind *)
(* it: only that one can leave a freed node in the list.                    *)
CallbacksKept ==
    ~clipped =>
        /\ ~broken
        /\ Ends /\ Linked \subseteq live
        /\ Cardinality(Linked) = Len(handles)
        /\ \A i \in DOMAIN handles : Walk[i - 1] = handles[i]
        /\ \A c \in Clients : turn[c] = "notify" /\ visit[c] = Null => told = handles
=============================================================================
