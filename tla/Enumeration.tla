---------------------------- MODULE Enumeration ----------------------------
(***************************************************************************)
(* What a client that lists a table to its end is promised: it is given    *)
(* new keys only, whenever it is given any, and the end comes when it has  *)
(* all it should see that was never deleted meanwhile.  There are no pages *)
(* here, no cursors, no limits and no failures.                            *)
(***************************************************************************)
EXTENDS Naturals

CONSTANTS Key

VARIABLES
    table,   \* the keys of the items in the table
    shown,   \* the keys that this enumeration is about
    phase,   \* "idle", "walking", "finished", "abandoned"
    listed,  \* how often each key was delivered
    stable   \* the keys that have been in the table since it began

enumeration == <<table, shown, phase, listed, stable>>

Init ==
    /\ table \subseteq Key
    /\ phase = "idle"
    /\ listed = [k \in Key |-> 0]
    /\ stable = {}

Change ==
    /\ table' \subseteq Key
    /\ stable' = stable \cap table'
    /\ UNCHANGED <<shown, phase, listed>>

Begin ==
    /\ phase = "idle" /\ phase' = "walking"
    /\ stable' = table
    /\ UNCHANGED <<table, shown, listed>>

Give(keys) ==
    /\ phase = "walking"
    /\ \A k \in keys : k \in shown /\ listed[k] = 0
    /\ listed' = [k \in Key |-> IF k \in keys THEN listed[k] + 1 ELSE listed[k]]
    /\ UNCHANGED <<table, shown, stable>>

Deliver(keys) == Give(keys) /\ UNCHANGED phase

Finish(keys) ==
    /\ Give(keys)
    /\ \A k \in stable \cap shown : listed'[k] = 1
    /\ phase' = "finished"

Abandon ==
    /\ phase = "walking" /\ phase' = "abandoned"
    /\ UNCHANGED <<table, shown, listed, stable>>

Next ==
    \/ Change \/ Begin \/ Abandon
    \/ \E keys \in SUBSET Key : Deliver(keys) \/ Finish(keys)

Spec == Init /\ [][Next]_enumeration

=============================================================================
