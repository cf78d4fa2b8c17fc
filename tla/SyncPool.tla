------------------------------ MODULE SyncPool ------------------------------
(***************************************************************************)
(* What Syncgroup.Sync promises of its folders, without indexes, counters, *)
(* channels and locks: every folder is free, in work, or at rest for its   *)
(* interval, and only so many are in work at once.                         *)
(***************************************************************************)
EXTENDS FiniteSets, Integers

CONSTANTS
    Folder,     \* the folders of the syncgroup
    Limit       \* how many may be in work

VARIABLE state

InWork == {f \in Folder : state[f] = "syncing"}

Init == state = [f \in Folder |-> "free"]

Start(f) ==
    /\ state[f] = "free"
    /\ Cardinality(InWork) < Limit
    /\ state' = [state EXCEPT ![f] = "syncing"]

Finish(f) ==
    /\ state[f] = "syncing"
    /\ state' = [state EXCEPT ![f] = "resting"]

Release(f) ==
    /\ state[f] = "resting"
    /\ state' = [state EXCEPT ![f] = "free"]

Next == \E f \in Folder : Start(f) \/ Finish(f) \/ Release(f)

Spec == Init /\ [][Next]_state
=============================================================================
