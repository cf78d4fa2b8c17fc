----------------------------- MODULE TwoWaySync -----------------------------
(***************************************************************************)
(* What SyncFolder promises of the messages of a folder, without uids,     *)
(* lists, rows, flags and transactions: a pass takes one message at a time *)
(* from one store and puts it on the other one, or loses it from its hand; *)
(* and it takes away what a mail client gave up, nothing else.             *)
(***************************************************************************)
EXTENDS Integers

CONSTANTS Msg   \* the messages that may be delivered

VARIABLES
    held,       \* held[s]: the messages store s has at least one copy of
    born,       \* the messages that were ever delivered
    gone,       \* those a mail client deleted or flagged Deleted somewhere
    hand        \* {}, or {<<s, m>>}: message m, read from store s

vars == <<held, born, gone, hand>>

Init ==
    /\ held = [s \in {1, 2} |-> {}]
    /\ born = {}
    /\ gone = {}
    /\ hand = {}

(* The mail clients.                                                       *)
Deliver(s, m) ==
    /\ m \notin born
    /\ born' = born \cup {m}
    /\ held' = [held EXCEPT ![s] = @ \cup {m}]
    /\ UNCHANGED <<gone, hand>>

GiveUp(s, m) ==
    /\ m \in held[s]
    /\ gone' = gone \cup {m}
    /\ held' \in {held, [held EXCEPT ![s] = @ \ {m}]}
    /\ UNCHANGED <<born, hand>>

(* The passes.                                                             *)
Read(s, m) ==
    /\ hand = {}
    /\ m \in held[s]
    /\ hand' = {<<s, m>>}
    /\ UNCHANGED <<held, born, gone>>

Add(s, m) ==
    /\ hand = {<<s, m>>}
    /\ hand' = {}
    /\ held' = [held EXCEPT ![3 - s] = @ \cup {m}]
    /\ UNCHANGED <<born, gone>>

Lose ==
    /\ hand # {}
    /\ hand' = {}
    /\ UNCHANGED <<held, born, gone>>

Drop(s, lost) ==
    /\ held' = [held EXCEPT ![s] = @ \ lost]
    /\ UNCHANGED <<born, gone, hand>>

Next ==
    \/ \E s \in {1, 2}, m \in Msg : Deliver(s, m) \/ GiveUp(s, m) \/ Read(s, m) \/ Add(s, m)
    \/ Lose
    \/ \E s \in {1, 2} : \E lost \in SUBSET gone : Drop(s, lost)

Spec == Init /\ [][Next]_vars
=============================================================================
