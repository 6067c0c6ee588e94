--------------------------- MODULE ChangeNotifier ---------------------------
(***************************************************************************)
(* What the dynamodb_poll watch promises the host: once it has a baseline, *)
(* it signals whenever the mark it sees advances, once for each advance,   *)
(* and signals no more changes than there were.  Of a mark that falls back *)
(* (the newest item is deleted, or a replica lags) nothing is promised:    *)
(* the watch may keep its mark, or take the lower one, with a signal or    *)
(* without.  There are no ticks here, no items, no failures and no         *)
(* replicas; of those there is only left that a source with several may    *)
(* echo a change.                                                          *)
(***************************************************************************)
EXTENDS Naturals

CONSTANTS
    Marks,     \* what a source can be seen at: numbers, later ones larger
    MaxFires,  \* notifications counted (a bound of the model)
    None       \* no mark

VARIABLES
    phase,    \* "unwatched", "watching", "ended"
    echoes,   \* the source may be seen at a mark it was at before
    changes,  \* how often the source changed
    mark,     \* where the watch has seen it last, None before the baseline
    fires     \* how often it signalled a change, counted up to MaxFires

notifier == <<phase, echoes, changes, mark, fires>>

Init ==
    /\ phase = "unwatched"
    /\ echoes \in BOOLEAN
    /\ changes = 0
    /\ mark = None
    /\ fires = 0

Change ==
    /\ changes' = changes + 1
    /\ UNCHANGED <<phase, echoes, mark, fires>>

\* The watch is started, or refused.
Start ==
    /\ phase = "unwatched"
    /\ phase' \in {"watching", "ended"}
    /\ UNCHANGED <<echoes, changes, mark, fires>>

TakeBaseline ==
    /\ phase = "watching" /\ mark = None
    /\ mark' \in Marks
    /\ UNCHANGED <<phase, echoes, changes, fires>>

\* The count of signals after one more.
OneMore == IF fires < MaxFires THEN fires + 1 ELSE fires

\* There is a change that has not been signalled, or the echo of one.
Signallable == echoes \/ fires < changes

Notify ==
    /\ phase = "watching" /\ mark # None
    /\ Signallable
    /\ mark' \in {m \in Marks : m > mark}
    /\ fires' = OneMore
    /\ UNCHANGED <<phase, echoes, changes>>

Retreat ==
    /\ phase = "watching" /\ mark # None
    /\ mark' \in {m \in Marks : m < mark}
    /\ \/ fires' = fires
       \/ Signallable /\ fires' = OneMore
    /\ UNCHANGED <<phase, echoes, changes>>

End ==
    /\ phase = "watching"
    /\ phase' = "ended"
    /\ UNCHANGED <<echoes, changes, mark, fires>>

Next == Change \/ Start \/ TakeBaseline \/ Notify \/ Retreat \/ End

Spec == Init /\ [][Next]_notifier

=============================================================================
