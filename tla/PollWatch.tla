----------------------------- MODULE PollWatch -----------------------------
(***************************************************************************)
(* The dynamodb_poll watch strategy: a thread of the SDK's polling helper  *)
(* calls the closure that watch() built once per interval.  A tick reads   *)
(* one item, takes the cursor off it, and the helper signals a change when *)
(* the cursor has advanced.  With a key condition the tick is a descending *)
(* Query and sees the largest cursor of the partition; without one it is a *)
(* Scan and sees whatever item comes first in the table's own order, which *)
(* is the order of Slot here.                                              *)
(*                                                                         *)
(* The helper is the SDK's and not in this repository.  What the documents *)
(* say of it is taken for granted: no cursor is no signal, the first one   *)
(* is the baseline, a larger one is signalled.  What it does with a        *)
(* smaller one they leave open, and so does FallBack.                      *)
(*                                                                         *)
(* Neither read asks for consistency, so a tick sees one of DynamoDB's     *)
(* replicas, which may lag behind the table, and of which one or several   *)
(* may answer.  The cursor grows with every write (a ULID or a timestamp), *)
(* as watch.rs requires of it.                                             *)
(***************************************************************************)
EXTENDS Naturals, FiniteSetsExt

CONSTANTS
    Slots,      \* items the table has room for
    MaxCursor,  \* writes of a cursor (a bound of the model)
    MaxFires,   \* notifications counted (a bound of the model)
    Routes,     \* the sets of replicas that may share the reads
    None        \* no item, no cursor

ASSUME SlotsAssumption == Slots \in Nat \ {0} /\ MaxCursor \in Nat
ASSUME FiresAssumption == MaxFires \in Nat
ASSUME RoutesAssumption == {} \notin Routes
ASSUME NoCursorAssumption == None \notin Nat

Slot == 1 .. Slots

Replica == UNION Routes

\* An item whose cursor attribute is missing or not a string, number or bool.
Bare == 0

Contents == [Slot -> 0 .. MaxCursor \cup {None}]

VARIABLES
    items,    \* the table: the cursor of the item in each slot
    clock,    \* the largest cursor written so far
    replica,  \* what each replica has of the table
    serving,  \* the replicas that answer eventually consistent reads
    scoped,   \* the watch spec has a key_condition
    pc,       \* the watch: before watch(), or where its thread is
    seen,     \* the helper's last cursor; None before the baseline
    sample,   \* the cursor the current tick returned
    fires,    \* how often emit_event was called, counted up to MaxFires
    changes   \* how often the table changed

vars == <<items, clock, replica, serving, scoped, pc, seen, sample, fires,
          changes>>

WatchPCs == {"unwatched", "refused", "sleeping", "polling", "sampled", "stopped"}

TypeOK ==
    /\ items \in Contents
    /\ clock \in 0 .. MaxCursor
    /\ replica \in [Replica -> Contents]
    /\ serving \in Routes
    /\ scoped \in BOOLEAN
    /\ pc \in WatchPCs
    /\ seen \in 1 .. MaxCursor \cup {None}
    /\ sample \in 1 .. MaxCursor \cup {None}
    /\ fires \in 0 .. MaxFires
    /\ changes \in Nat

\* cursor_from_item: None for an item that has no usable cursor.
CursorOf(cursor) == IF cursor = Bare THEN None ELSE cursor

Occupied(contents) == {s \in Slot : contents[s] # None}

\* The cursors a Query sees: an item without one is not in an index whose sort
\* key the cursor is.
Indexed(contents) == {contents[s] : s \in Occupied(contents)} \ {Bare}

Tops(cursors) == {c \in cursors : \A d \in cursors : d <= c}

\* The cursor of the item a Query of one item, last cursor first, returns.
QueryAnswers(contents) ==
    IF Indexed(contents) = {} THEN {None} ELSE Tops(Indexed(contents))

\* The cursor of the item a Scan of one item returns.
ScanAnswers(contents) ==
    IF Occupied(contents) = {} THEN {None}
    ELSE {CursorOf(contents[s]) :
             s \in {o \in Occupied(contents) :
                      \A u \in Occupied(contents) : o <= u}}

\* What a tick of the watch reads off a replica that has these contents.
Answers(contents) ==
    IF scoped THEN QueryAnswers(contents) ELSE ScanAnswers(contents)

\* The largest cursor in the table, what "high-water" stands for.
HighWater(contents) == Max(Indexed(contents) \cup {Bare})

Init ==
    /\ items \in [Slot -> {None, Bare, 1} \cap (0 .. MaxCursor \cup {None})]
    /\ clock = IF \E s \in Slot : items[s] = 1 THEN 1 ELSE 0
    /\ replica = [q \in Replica |-> items]
    /\ serving \in Routes
    /\ scoped = FALSE
    /\ pc = "unwatched"
    /\ seen = None
    /\ sample = None
    /\ fires = 0
    /\ changes = 0

-----------------------------------------------------------------------------
(* The table and its replicas                                              *)

watchUnchanged == UNCHANGED <<serving, scoped, pc, seen, sample, fires>>

\* Somebody puts or updates the item in slot s, with the next cursor.
WriteItem(s) ==
    /\ clock < MaxCursor
    /\ clock' = clock + 1
    /\ items' = [items EXCEPT ![s] = clock + 1]
    /\ changes' = changes + 1
    /\ UNCHANGED replica
    /\ watchUnchanged

DeleteItem(s) ==
    /\ items[s] # None
    /\ items' = [items EXCEPT ![s] = None]
    /\ changes' = changes + 1
    /\ UNCHANGED <<clock, replica>>
    /\ watchUnchanged

Replicate(q) ==
    /\ q \in serving
    /\ replica[q] # items
    /\ replica' = [replica EXCEPT ![q] = items]
    /\ UNCHANGED <<items, clock, changes>>
    /\ watchUnchanged

-----------------------------------------------------------------------------
(* The watch                                                               *)

tableUnchanged == UNCHANGED <<items, clock, replica, serving, changes>>

tickUnchanged == UNCHANGED scoped /\ tableUnchanged

\* watch(): an empty table or cursor_attr, or expression values that do not
\* marshal, are refused; otherwise the helper's thread is started.
Watch(valid, keyCondition) ==
    /\ pc = "unwatched"
    /\ scoped' = keyCondition
    /\ pc' = IF valid THEN "sleeping" ELSE "refused"
    /\ UNCHANGED <<seen, sample, fires>>
    /\ tableUnchanged

BeginTick ==
    /\ pc = "sleeping"
    /\ pc' = "polling"
    /\ UNCHANGED <<seen, sample, fires>>
    /\ tickUnchanged

\* Variant: the tick reads the oldest item, ascending.
PollAscending(q) ==
    LET cursors == Indexed(replica[q]) IN
    /\ pc = "polling"
    /\ q \in serving
    /\ sample' \in IF ~scoped THEN ScanAnswers(replica[q])
                   ELSE IF cursors = {} THEN {None} ELSE {Min(cursors)}
    /\ pc' = "sampled"
    /\ UNCHANGED <<seen, fires>>
    /\ tickUnchanged

\* The Query or Scan is answered from replica q.
Poll(q) ==
    /\ pc = "polling"
    /\ q \in serving
    /\ sample' \in Answers(replica[q])
    /\ pc' = "sampled"
    /\ UNCHANGED <<seen, fires>>
    /\ tickUnchanged

\* Variant: a failed tick returns a default cursor.
TickFailsAsDefault ==
    /\ pc = "polling"
    /\ pc' = "sampled"
    /\ sample' = Bare
    /\ UNCHANGED <<seen, fires>>
    /\ tickUnchanged

\* Variant: a failed tick starts over from a new baseline.
TickFailsForgets ==
    /\ pc = "polling"
    /\ pc' = "sleeping"
    /\ seen' = None
    /\ UNCHANGED <<sample, fires>>
    /\ tickUnchanged

\* The request failed or the tick's budget ran out: the helper tries again at
\* the next tick.
TickFails ==
    /\ pc = "polling"
    /\ pc' = "sleeping"
    /\ UNCHANGED <<seen, sample, fires>>
    /\ tickUnchanged

\* The current tick has a cursor that the helper may report.
News == sample # None /\ seen \notin {None, sample}

Signal == fires' = IF fires < MaxFires THEN fires + 1 ELSE fires

\* No cursor, or the one there was.
NothingNew ==
    /\ sample \in {None, seen}
    /\ UNCHANGED <<seen, fires>>

Baseline ==
    /\ seen = None /\ sample # None
    /\ seen' = sample
    /\ UNCHANGED fires

\* "A change is signalled whenever that value advances."
Advance ==
    /\ News /\ sample > seen
    /\ seen' = sample
    /\ Signal

\* The newest item was deleted, or the replica lags behind the last one. A
\* helper that keeps the high-water mark stays where it is, one that compares
\* with the last cursor moves back, one that looks for a difference also
\* signals.
FallBack ==
    /\ News /\ sample < seen
    /\ \/ UNCHANGED <<seen, fires>>
       \/ seen' = sample /\ UNCHANGED fires
       \/ seen' = sample /\ Signal

\* The helper compares the tick's cursor with the one it has.
Diff ==
    /\ pc = "sampled"
    /\ NothingNew \/ Baseline \/ Advance \/ FallBack
    /\ pc' = "sleeping"
    /\ UNCHANGED sample
    /\ tickUnchanged

\* cancel(): the thread ends before its next tick.
Cancel ==
    /\ pc = "sleeping"
    /\ pc' = "stopped"
    /\ UNCHANGED <<seen, sample, fires>>
    /\ tickUnchanged

Done == pc \in {"refused", "stopped"} /\ UNCHANGED vars

Next ==
    \/ \E s \in Slot : WriteItem(s) \/ DeleteItem(s)
    \/ \E q \in Replica : Replicate(q) \/ Poll(q)
    \/ \E valid, keyCondition \in BOOLEAN : Watch(valid, keyCondition)
    \/ BeginTick \/ TickFails \/ Diff \/ Cancel
    \/ Done

Spec == Init /\ [][Next]_vars

\* The thread runs, replicas catch up, and reads do not fail for ever.
Fairness ==
    /\ WF_vars(BeginTick) /\ WF_vars(Diff)
    /\ \A q \in Replica : WF_vars(Replicate(q))
    /\ SF_vars(\E q \in Replica : Poll(q))

FairSpec == Spec /\ Fairness

-----------------------------------------------------------------------------

\* Every notification has a change of its own behind it, be it one the replica
\* only learned of after watch(): as long as reads go to one replica, the watch
\* never fires at startup, never twice for one change, and a failing tick does
\* not make a later one fire.
FiresHaveChanges == (\A q, w \in serving : q = w) => fires <= changes

\* No advance is swallowed: the watch never loses its baseline, and whenever it
\* moves on from it, whatever failed in between, it notifies once.
NoChangeSwallowed ==
    [][seen # None =>
         /\ seen' # None
         /\ seen' > seen => fires' = fires + 1 \/ fires = MaxFires]_vars

\* Replicas that disagree may make the watch go back and forth, and signal one
\* change more than once; when the writes have stopped, it falls silent.
FallsSilent == <>[][seen' = seen]_vars

-----------------------------------------------------------------------------
(* What makes FiresHaveChanges inductive: whatever the watch has yet to signal *)
(* is owed to a change of its own.                                             *)

\* The cursor the watch has after the current tick, if it takes that one.
Latest == IF pc = "sampled" /\ sample # None THEN sample ELSE seen

\* The next tick would read another cursor.
Ahead(contents) ==
    Latest # None /\ \E c \in Answers(contents) : c \notin {None, Latest}

One(condition) == IF condition THEN 1 ELSE 0

Owed(q) ==
    One(pc = "sampled" /\ News) + One(Ahead(replica[q]))
      + One(replica[q] # items)

OwedInv ==
    (\A q, w \in serving : q = w) => \A q \in serving : fires + Owed(q) <= changes

\* Nothing has been read before watch().
FreshInv == pc = "unwatched" => seen = None

WatchInv == TypeOK /\ FreshInv /\ OwedInv

-----------------------------------------------------------------------------

\* The watch has a baseline and the table is ahead of it.
Behind == seen # None /\ HighWater(items) > seen

\* A watch with a key condition that is behind the table's high-water mark
\* catches up with it, unless it is cancelled or the mark falls back.
AdvanceIsNoticed == scoped /\ Behind ~> ~Behind \/ pc = "stopped"

\* README.md, plugin.yaml and the comments of watch.rs promise the same of a
\* watch without one, a "full-table high-water scan". The Scan is not ordered by
\* the cursor, so an item written elsewhere than at the table's head is missed.
ScanAdvanceIsNoticed == ~scoped /\ Behind ~> ~Behind \/ pc = "stopped"

\* Ticks, failures and the lag of replicas are no more than moves from mark to
\* mark: every advance is signalled once, and while reads go to one replica
\* every signal has a change of its own behind it.
Watched == INSTANCE ChangeNotifier WITH
    Marks  <- 1 .. MaxCursor,
    mark   <- seen,
    echoes <- \E q, w \in serving : q # w,
    phase  <- IF pc = "unwatched" THEN pc
              ELSE IF pc \in {"refused", "stopped"} THEN "ended" ELSE "watching"

NotifierSpec == Watched!Spec

=============================================================================
