---------------------------- MODULE BanRegistry ----------------------------
(***************************************************************************)
(* What the ban manager promises: every address has a queue of bans, an     *)
(* unban takes back the oldest one whether it has run out or not, and an    *)
(* address is banned as long as one of its bans has time left.              *)
(***************************************************************************)
EXTENDS Integers, Sequences

CONSTANTS Addresses, Spans

VARIABLES now,     \* the clock, in seconds
          due,     \* per address: when each of its bans ends, oldest ban first
          answer   \* what the last call returned

registry == <<now, due, answer>>

Init ==
    /\ now = 0 /\ answer = FALSE
    /\ due = [a \in Addresses |-> <<>>]

Ban(a, span) ==
    /\ due' = [due EXCEPT ![a] = Append(@, now + span)]
    /\ answer' = TRUE /\ UNCHANGED now

(* No room for another ban.                                                 *)
Refuse == answer' = FALSE /\ UNCHANGED <<now, due>>

Unban(a) ==
    /\ answer' = (due[a] # <<>>)
    /\ due' = IF due[a] = <<>> THEN due ELSE [due EXCEPT ![a] = Tail(@)]
    /\ UNCHANGED now

Banned(a) == \E i \in DOMAIN due[a] : due[a][i] > now

Ask(a) == answer' = Banned(a) /\ UNCHANGED <<now, due>>

Tick == now' = now + 1 /\ UNCHANGED <<due, answer>>

Next ==
    \/ \E a \in Addresses, span \in Spans : Ban(a, span)
    \/ \E a \in Addresses : Unban(a) \/ Ask(a)
    \/ Refuse \/ Tick

Spec == Init /\ [][Next]_registry
=============================================================================
