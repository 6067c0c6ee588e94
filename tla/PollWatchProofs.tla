-------------------------- MODULE PollWatchProofs --------------------------
(***************************************************************************)
(* What the dynamodb_poll watch promises, for every number of items,       *)
(* writes and replicas: its variables keep their types, every notification *)
(* has a change of its own behind it while reads go to one replica, and no *)
(* new cursor goes unsignalled.                                            *)
(***************************************************************************)
EXTENDS PollWatch, TLAPS

-----------------------------------------------------------------------------
(* What a tick can read                                                    *)

\* A replica has for the watch the cursor of an item, or none.
LEMMA AnswersType ==
    ASSUME NEW contents \in Contents, NEW c \in Answers(contents)
    PROVE  c \in 1 .. MaxCursor \cup {None}
<1>1. \A s \in Occupied(contents) : contents[s] \in 0 .. MaxCursor
  BY DEF Contents, Occupied
<1>2. Indexed(contents) \subseteq 1 .. MaxCursor
  <2> SUFFICES ASSUME NEW i \in Indexed(contents) PROVE i \in 1 .. MaxCursor
    OBVIOUS
  <2>1. i \in 0 .. MaxCursor /\ i # Bare
    BY <1>1 DEF Indexed
  <2> QED BY <2>1, SlotsAssumption DEF Bare
<1>3. c \in QueryAnswers(contents) => c \in 1 .. MaxCursor \cup {None}
  BY <1>2 DEF QueryAnswers, Tops
<1>4. ASSUME c \in ScanAnswers(contents), c # None
      PROVE  c \in 1 .. MaxCursor
  <2>1. PICK s \in Occupied(contents) : c = CursorOf(contents[s])
    BY <1>4 DEF ScanAnswers
  <2>2. c = contents[s] /\ contents[s] # Bare
    BY <1>4, <2>1 DEF CursorOf
  <2> QED BY <1>1, <2>1, <2>2, SlotsAssumption DEF Bare
<1> QED BY <1>3, <1>4 DEF Answers

\* A replica has one answer: the watch cannot see two cursors in one state.
LEMMA OneAnswer ==
    ASSUME NEW contents \in Contents,
           NEW c \in Answers(contents), NEW d \in Answers(contents)
    PROVE  c = d
<1>1. \A s \in Occupied(contents) : contents[s] \in 0 .. MaxCursor
  BY DEF Contents, Occupied
<1>2. Indexed(contents) \subseteq Nat
  BY <1>1, SlotsAssumption DEF Indexed
<1>3. c \in QueryAnswers(contents) /\ d \in QueryAnswers(contents) => c = d
  BY <1>2 DEF QueryAnswers, Tops
<1>4. ASSUME c \in ScanAnswers(contents), d \in ScanAnswers(contents)
      PROVE  c = d
  <2>1. CASE Occupied(contents) = {}
    BY <1>4, <2>1 DEF ScanAnswers
  <2>2. CASE Occupied(contents) # {}
    <3>1. PICK s \in Occupied(contents) :
             c = CursorOf(contents[s]) /\ \A u \in Occupied(contents) : s <= u
      BY <1>4, <2>2 DEF ScanAnswers
    <3>2. PICK u \in Occupied(contents) :
             d = CursorOf(contents[u]) /\ \A o \in Occupied(contents) : u <= o
      BY <1>4, <2>2 DEF ScanAnswers
    <3>3. s \in Nat /\ u \in Nat /\ s <= u /\ u <= s
      BY <3>1, <3>2, SlotsAssumption DEF Occupied, Slot
    <3> QED BY <3>1, <3>2, <3>3
  <2> QED BY <2>1, <2>2
<1> QED BY <1>3, <1>4 DEF Answers

\* Reads are answered by replicas of the table.
LEMMA ServingAreReplicas == serving \in Routes => serving \subseteq Replica
  BY DEF Replica

-----------------------------------------------------------------------------
(* Types                                                                   *)

LEMMA TypeInit == Init => TypeOK
<1> SUFFICES ASSUME Init PROVE TypeOK
  OBVIOUS
<1>1. items \in Contents
  BY SlotsAssumption DEF Init, Contents
<1>2. replica \in [Replica -> Contents]
  BY <1>1 DEF Init
<1>3. clock \in 0 .. MaxCursor
  BY <1>1, SlotsAssumption, NoCursorAssumption DEF Init, Contents
<1>4. fires \in 0 .. MaxFires /\ changes \in Nat
  BY FiresAssumption DEF Init
<1>5. scoped \in BOOLEAN /\ pc \in WatchPCs /\ seen = None /\ sample = None
  BY DEF Init, WatchPCs
<1>6. serving \in Routes
  BY DEF Init
<1> QED BY <1>1, <1>2, <1>3, <1>4, <1>5, <1>6 DEF TypeOK

\* The steps of the watch.
LEMMA TypeWatch ==
    ASSUME TypeOK,
           \/ \E q \in Replica : Poll(q)
           \/ \E valid, keyCondition \in BOOLEAN : Watch(valid, keyCondition)
           \/ BeginTick \/ TickFails \/ Diff \/ Cancel
    PROVE  TypeOK'
<1>1. tableUnchanged
  BY DEF Poll, Watch, BeginTick, TickFails, Diff, Cancel, tickUnchanged
<1>2. pc' \in WatchPCs /\ scoped' \in BOOLEAN
  BY DEF Poll, Watch, BeginTick, TickFails, Diff, Cancel, tickUnchanged,
         TypeOK, WatchPCs
<1>3. sample' \in 1 .. MaxCursor \cup {None}
  <2>1. ASSUME NEW q \in Replica, Poll(q)
        PROVE  sample' \in 1 .. MaxCursor \cup {None}
    <3>1. replica[q] \in Contents
      BY DEF TypeOK
    <3> QED BY <2>1, <3>1, AnswersType DEF Poll
  <2> QED BY <2>1 DEF Watch, BeginTick, TickFails, Diff, Cancel, TypeOK
<1>4. seen' \in 1 .. MaxCursor \cup {None} /\ fires' \in 0 .. MaxFires
  BY FiresAssumption DEF Poll, Watch, BeginTick, TickFails, Diff, NothingNew,
     Baseline, Advance, FallBack, Signal, Cancel, TypeOK
<1> QED BY <1>1, <1>2, <1>3, <1>4 DEF TypeOK, tableUnchanged

LEMMA TypeStep == TypeOK /\ [Next]_vars => TypeOK'
<1> SUFFICES ASSUME TypeOK, [Next]_vars PROVE TypeOK'
  OBVIOUS
<1>1. CASE UNCHANGED vars
  BY <1>1 DEF TypeOK, vars
<1>2. ASSUME NEW s \in Slot, WriteItem(s) \/ DeleteItem(s) PROVE TypeOK'
  <2>1. items' \in Contents /\ clock' \in 0 .. MaxCursor /\ changes' \in Nat
    <3>1. CASE WriteItem(s)
      <4>1. clock + 1 \in 0 .. MaxCursor
        BY <3>1, SlotsAssumption DEF WriteItem, TypeOK
      <4> QED BY <3>1, <4>1 DEF WriteItem, TypeOK, Contents
    <3>2. CASE DeleteItem(s)
      BY <3>2 DEF DeleteItem, TypeOK, Contents
    <3> QED BY <1>2, <3>1, <3>2
  <2> QED BY <1>2, <2>1 DEF WriteItem, DeleteItem, watchUnchanged, TypeOK
<1>3. ASSUME NEW q \in Replica, Replicate(q) PROVE TypeOK'
  BY <1>3 DEF Replicate, watchUnchanged, TypeOK
<1>4. CASE Done
  BY <1>4 DEF Done, TypeOK, vars
<1> QED BY <1>1, <1>2, <1>3, <1>4, TypeWatch DEF Next

-----------------------------------------------------------------------------
(* Every notification is owed to a change                                  *)

LEMMA OwedInit == Init => OwedInv
<1> SUFFICES ASSUME Init, NEW q \in serving PROVE fires + Owed(q) <= changes
  BY DEF OwedInv
<1>1. ~News /\ Latest = None /\ replica[q] = items
  BY ServingAreReplicas DEF Init, News, Latest
<1> QED BY <1>1 DEF Init, Owed, One, Ahead

\* A write or a deletion is a change more, and owes one notification at most.
LEMMA OwedTable ==
    ASSUME TypeOK, OwedInv, NEW s \in Slot, WriteItem(s) \/ DeleteItem(s)
    PROVE  OwedInv'
<1> SUFFICES ASSUME \A q, w \in serving : q = w, NEW q \in serving
             PROVE  fires' + Owed(q)' <= changes'
  BY DEF OwedInv, WriteItem, DeleteItem, watchUnchanged
<1>1. fires + Owed(q) <= changes
  BY DEF OwedInv
<1>2. changes' = changes + 1 /\ UNCHANGED <<scoped, pc, seen, sample, fires, replica>>
  BY DEF WriteItem, DeleteItem, watchUnchanged
<1>3. News' = News /\ Ahead(replica[q])' = Ahead(replica[q]) /\ pc' = pc
  BY <1>2 DEF News, Ahead, Latest, Answers, ScanAnswers, QueryAnswers
<1> QED BY <1>1, <1>2, <1>3 DEF Owed, One, TypeOK

\* A replica that catches up moves what it owed into what the next tick reads.
LEMMA OwedReplicate ==
    ASSUME TypeOK, OwedInv, NEW w \in Replica, Replicate(w)
    PROVE  OwedInv'
<1> SUFFICES ASSUME \A q, r \in serving : q = r, NEW q \in serving
             PROVE  fires' + Owed(q)' <= changes'
  BY DEF OwedInv, Replicate, watchUnchanged
<1>1. fires + Owed(q) <= changes /\ q = w
  BY DEF OwedInv, Replicate
<1>2. UNCHANGED <<scoped, pc, seen, sample, fires, items, changes>>
  BY DEF Replicate, watchUnchanged
<1>3. News' = News /\ replica'[q] = items' /\ replica[q] # items
  BY <1>1, <1>2, ServingAreReplicas DEF News, Replicate, TypeOK
<1>4. One(replica'[q] # items') = 0 /\ One(replica[q] # items) = 1
  BY <1>3 DEF One
<1> QED BY <1>1, <1>2, <1>3, <1>4 DEF Owed, One, TypeOK

\* A tick reads what the replica has, and is then level with it.
LEMMA OwedPoll ==
    ASSUME TypeOK, OwedInv, NEW w \in Replica, Poll(w)
    PROVE  OwedInv'
<1> SUFFICES ASSUME \A q, r \in serving : q = r, NEW q \in serving
             PROVE  fires' + Owed(q)' <= changes'
  BY DEF OwedInv, Poll, tickUnchanged, tableUnchanged
<1>1. fires + Owed(q) <= changes /\ q = w
  BY DEF OwedInv, Poll
<1>2. /\ UNCHANGED <<scoped, seen, fires, items, changes, replica>>
      /\ pc = "polling" /\ pc' = "sampled" /\ sample' \in Answers(replica[q])
  BY <1>1 DEF Poll, tickUnchanged, tableUnchanged
<1>3. Answers(replica[q])' = Answers(replica[q]) /\ replica[q] \in Contents
  BY <1>2, ServingAreReplicas DEF Answers, QueryAnswers, ScanAnswers, TypeOK
<1>4. Answers(replica[q]) \subseteq {sample'}
  BY <1>2, <1>3, OneAnswer
<1>5. ~Ahead(replica[q])'
  BY <1>2, <1>3, <1>4 DEF Ahead, Latest
<1>6. News' => Ahead(replica[q])
  BY <1>2 DEF News, Ahead, Latest
<1>7. One(pc = "sampled" /\ News) = 0 /\ One(replica'[q] # items') = One(replica[q] # items)
  BY <1>2 DEF One
<1> QED BY <1>1, <1>2, <1>5, <1>6, <1>7 DEF Owed, One, TypeOK

\* What the helper may do with the cursor of a tick.
LEMMA DiffOutcomes ==
    ASSUME TypeOK, Diff
    PROVE  /\ UNCHANGED <<scoped, sample, items, changes, replica, serving>>
           /\ pc = "sampled" /\ pc' = "sleeping"
           /\ fires' \in Nat
           /\ \/ seen' = seen /\ fires' = fires
              \/ seen' = sample /\ sample # None /\ fires' <= fires + One(News)
<1>1. /\ UNCHANGED <<scoped, sample, items, changes, replica, serving>>
      /\ pc = "sampled" /\ pc' = "sleeping"
  BY DEF Diff, tickUnchanged, tableUnchanged
<1>2. CASE NothingNew
  BY <1>1, <1>2 DEF NothingNew, TypeOK
<1>3. CASE Baseline
  BY <1>1, <1>3 DEF Baseline, One, TypeOK
<1>4. CASE Advance \/ FallBack
  BY <1>1, <1>4, FiresAssumption DEF Advance, FallBack, Signal, News, One, TypeOK
<1> QED BY <1>2, <1>3, <1>4 DEF Diff

\* The helper's diff pays what the tick owed. A watch that keeps its mark may
\* be asked for a signal again by the next tick, which is no more than it owed.
LEMMA OwedDiff ==
    ASSUME TypeOK, OwedInv, Diff PROVE OwedInv'
<1> SUFFICES ASSUME \A q, r \in serving : q = r, NEW q \in serving
             PROVE  fires' + Owed(q)' <= changes'
  BY DiffOutcomes DEF OwedInv
<1>1. fires + (One(News) + One(Ahead(replica[q])) + One(replica[q] # items))
        <= changes
  <2>1. fires + Owed(q) <= changes /\ pc = "sampled"
    BY DiffOutcomes DEF OwedInv
  <2> QED BY <2>1 DEF Owed, One, TypeOK
<1>2. Owed(q)' = One(Ahead(replica[q]))' + One(replica[q] # items)
  BY DiffOutcomes DEF Owed, One
<1>3. /\ One(News) \in {0, 1} /\ One(Ahead(replica[q])) \in {0, 1}
      /\ One(replica[q] # items) \in {0, 1}
      /\ One(Ahead(replica[q]))' \in {0, 1}
  BY DEF One
<1>4. fires \in Nat /\ changes \in Nat /\ fires' \in Nat /\ changes' = changes
  BY DiffOutcomes DEF TypeOK
<1>5. CASE seen' = seen /\ fires' = fires /\ News
  <2>1. One(News) = 1
    BY <1>5 DEF One
  <2>2. fires + (1 + One(Ahead(replica[q])) + One(replica[q] # items)) <= changes
    BY <1>1, <2>1
  <2>3. fires + (1 + One(replica[q] # items)) <= changes
    BY <1>3, <1>4, <2>2
  <2>4. fires + (One(Ahead(replica[q]))' + One(replica[q] # items)) <= changes
    BY <1>3, <1>4, <2>3
  <2> QED BY <1>2, <1>4, <1>5, <2>4
<1>6. CASE seen' = seen /\ fires' = fires /\ ~News
  <2>1. seen = None => sample = None
    BY <1>6, DiffOutcomes DEF Diff, NothingNew, Baseline, Advance, FallBack
  <2>2. Latest' = Latest
    BY <1>6, <2>1, DiffOutcomes DEF Latest, News
  <2>3. One(Ahead(replica[q]))' = One(Ahead(replica[q]))
    BY <2>2, DiffOutcomes DEF Ahead, Answers, QueryAnswers, ScanAnswers, One
  <2> QED BY <1>1, <1>2, <1>3, <1>4, <1>6, <2>3
<1>7. CASE seen' = sample /\ sample # None /\ fires' <= fires + One(News)
  <2>1. Latest' = Latest
    BY <1>7, DiffOutcomes DEF Latest
  <2>2. One(Ahead(replica[q]))' = One(Ahead(replica[q]))
    BY <2>1, DiffOutcomes DEF Ahead, Answers, QueryAnswers, ScanAnswers, One
  <2> QED BY <1>1, <1>2, <1>3, <1>4, <1>7, <2>2
<1> QED BY <1>5, <1>6, <1>7, DiffOutcomes

\* watch() chooses between Query and Scan before anything was read.
LEMMA OwedWatch ==
    ASSUME TypeOK, FreshInv, OwedInv,
           NEW valid \in BOOLEAN, NEW keyCondition \in BOOLEAN,
           Watch(valid, keyCondition)
    PROVE  OwedInv'
<1> SUFFICES ASSUME \A q, r \in serving : q = r, NEW q \in serving
             PROVE  fires' + Owed(q)' <= changes'
  BY DEF OwedInv, Watch, tableUnchanged
<1>1. fires + Owed(q) <= changes
  BY DEF OwedInv
<1>2. /\ UNCHANGED <<sample, fires, items, changes, replica>>
      /\ seen' = None /\ pc' # "sampled"
  BY DEF Watch, tableUnchanged, FreshInv
<1>3. ~Ahead(replica[q])' /\ pc' # "sampled"
  BY <1>2 DEF Ahead, Latest
<1> QED BY <1>1, <1>2, <1>3 DEF Owed, One, TypeOK

\* The other steps of the watch signal nothing and read nothing.
LEMMA OwedOther ==
    ASSUME TypeOK, OwedInv,
           BeginTick \/ TickFails \/ Cancel \/ UNCHANGED vars
    PROVE  OwedInv'
<1> SUFFICES ASSUME \A q, r \in serving : q = r, NEW q \in serving
             PROVE  fires' + Owed(q)' <= changes'
  BY DEF OwedInv, BeginTick, TickFails, Cancel, tickUnchanged,
         tableUnchanged, vars
<1>1. fires + Owed(q) <= changes
  BY DEF OwedInv
<1>2. UNCHANGED <<scoped, seen, sample, fires, items, changes, replica>>
  BY DEF BeginTick, TickFails, Cancel, tickUnchanged, tableUnchanged, vars
<1>3. pc' = pc \/ (pc # "sampled" /\ pc' # "sampled")
  BY DEF BeginTick, TickFails, Cancel, vars
<1>4. Latest' = Latest /\ (pc' = "sampled" /\ News') = (pc = "sampled" /\ News)
  BY <1>2, <1>3 DEF Latest, News
<1>5. Ahead(replica[q])' = Ahead(replica[q])
  BY <1>2, <1>4 DEF Ahead, Answers, QueryAnswers, ScanAnswers
<1> QED BY <1>1, <1>2, <1>4, <1>5 DEF Owed, One, TypeOK

LEMMA WatchInvStep == WatchInv /\ [Next]_vars => WatchInv'
<1> SUFFICES ASSUME WatchInv, [Next]_vars PROVE WatchInv'
  OBVIOUS
<1> USE DEF WatchInv
<1>1. TypeOK'
  BY TypeStep
<1>2. FreshInv'
  BY DEF Next, WriteItem, DeleteItem, Replicate, Poll, Watch, BeginTick,
         TickFails, Diff, Cancel, Done, watchUnchanged, vars, FreshInv
<1>3. OwedInv'
  BY OwedTable, OwedReplicate, OwedPoll, OwedDiff, OwedWatch, OwedOther
     DEF Next, Done
<1> QED BY <1>1, <1>2, <1>3

-----------------------------------------------------------------------------
(* The theorems                                                            *)

\* The inductive invariant of the watch: types, nothing read before watch(),
\* and every signal sent or still to be sent owed to a change of its own.
THEOREM WatchInvariant == Spec => []WatchInv
<1>1. Init => WatchInv
  BY TypeInit, OwedInit DEF WatchInv, FreshInv, Init
<1> QED BY <1>1, WatchInvStep, PTL DEF Spec

\* The variables of the watch, the table and its replicas keep their types:
\* what a tick reads off a replica is a cursor or none (watch.rs, poll).
THEOREM TypeCorrect == Spec => []TypeOK
<1>1. WatchInv => TypeOK
  BY DEF WatchInv
<1> QED BY <1>1, WatchInvariant, PTL

\* While reads go to one replica, the watch signals no more often than the
\* table changed, however far the replica lags and whichever ticks fail.
THEOREM EverySignalHasAChange == Spec => []FiresHaveChanges
<1>1. WatchInv => FiresHaveChanges
  <2> SUFFICES ASSUME WatchInv, \A q, w \in serving : q = w
               PROVE  fires <= changes
    BY DEF FiresHaveChanges
  <2>1. PICK q \in serving : fires + Owed(q) <= changes
    BY RoutesAssumption DEF WatchInv, OwedInv, TypeOK
  <2>2. Owed(q) \in Nat /\ fires \in Nat /\ changes \in Nat
    BY DEF Owed, One, WatchInv, TypeOK
  <2> QED BY <2>1, <2>2
<1> QED BY <1>1, WatchInvariant, PTL

\* No tick takes the watch past a cursor without a signal, not even one that
\* follows failed or empty ticks, and none makes it forget its baseline.
THEOREM NoneSwallowed == Spec => NoChangeSwallowed
<1>1. TypeOK /\ [Next]_vars
        => [seen # None =>
              /\ seen' # None
              /\ seen' > seen => fires' = fires + 1 \/ fires = MaxFires]_vars
  <2> SUFFICES ASSUME TypeOK, Next, seen # None
               PROVE  /\ seen' # None
                      /\ seen' > seen => fires' = fires + 1 \/ fires = MaxFires
    OBVIOUS
  <2>1. seen \in Nat
    BY SlotsAssumption DEF TypeOK
  <2>2. CASE seen' = seen
    BY <2>1, <2>2
  <2>3. CASE seen' # seen
    <3>1. Diff
      BY <2>3 DEF Next, WriteItem, DeleteItem, Replicate, Poll, Watch, BeginTick,
             TickFails, Cancel, Done, watchUnchanged, vars
    <3>2. Advance \/ FallBack
      BY <2>3, <3>1 DEF Diff, NothingNew, Baseline
    <3>3. sample \in Nat /\ seen' = sample /\ seen' # None
      BY <2>3, <3>2, SlotsAssumption DEF Advance, FallBack, News, TypeOK
    <3>4. CASE Advance
      BY <3>3, <3>4, FiresAssumption DEF Advance, Signal, TypeOK
    <3>5. CASE FallBack
      BY <2>1, <3>3, <3>5 DEF FallBack
    <3> QED BY <3>2, <3>4, <3>5
  <2> QED BY <2>2, <2>3
<1> QED BY <1>1, TypeCorrect, PTL DEF Spec, NoChangeSwallowed

-----------------------------------------------------------------------------
(* A watch is a change notifier                                            *)

\* A signal that is about to be sent has a change of its own behind it.
LEMMA SignalIsOwed ==
    ASSUME WatchInv, pc = "sampled", News, \A q, w \in serving : q = w
    PROVE  fires < changes
<1>1. PICK q \in serving : fires + Owed(q) <= changes
  BY RoutesAssumption DEF WatchInv, OwedInv, TypeOK
<1>2. Owed(q) \in Nat /\ Owed(q) >= 1
  BY DEF Owed, One
<1>3. fires \in Nat /\ changes \in Nat
  BY DEF WatchInv, TypeOK
<1> QED BY <1>1, <1>2, <1>3

\* A watch begins as a notifier does.
LEMMA WatchStarts == Init => Watched!Init
BY DEF Init, Watched!Init

\* Every step of the watch, the table and its replicas is a step of the notifier,
\* or none.
LEMMA WatchNotifies == WatchInv /\ [Next]_vars => [Watched!Next]_(Watched!notifier)
<1> SUFFICES ASSUME WatchInv, [Next]_vars
             PROVE  Watched!Next \/ UNCHANGED Watched!notifier
  OBVIOUS
<1> USE DEF Watched!notifier
<1>1. CASE \E s \in Slot : WriteItem(s) \/ DeleteItem(s)
  <2>1. Watched!Change
    BY <1>1 DEF WriteItem, DeleteItem, watchUnchanged, Watched!Change
  <2> QED BY <2>1 DEF Watched!Next
<1>2. CASE \E valid, keyCondition \in BOOLEAN : Watch(valid, keyCondition)
  <2>1. Watched!Start
    BY <1>2 DEF Watch, tableUnchanged, Watched!Start
  <2> QED BY <2>1 DEF Watched!Next
<1>3. CASE Diff
  <2>1. /\ pc = "sampled" /\ pc' = "sleeping"
        /\ UNCHANGED <<serving, changes>>
    BY <1>3, DiffOutcomes DEF WatchInv
  <2>2. sample # None => sample \in 1 .. MaxCursor
    BY DEF WatchInv, TypeOK
  <2>3. CASE NothingNew
    BY <2>1, <2>3 DEF NothingNew
  <2>4. CASE Baseline
    <3>1. Watched!TakeBaseline
      BY <2>1, <2>2, <2>4 DEF Baseline, Watched!TakeBaseline
    <3> QED BY <3>1 DEF Watched!Next
  <2>5. CASE Advance \/ FallBack
    <3>1. News
      BY <2>5 DEF Advance, FallBack
    <3>2. Watched!Signallable
      BY <2>1, <3>1, SignalIsOwed DEF Watched!Signallable
    <3>3. Signal => fires' = Watched!OneMore
      BY DEF Signal, Watched!OneMore
    <3>4. CASE Advance
      <4>1. Watched!Notify
        BY <2>1, <2>2, <3>1, <3>2, <3>3, <3>4 DEF Advance, News, Watched!Notify
      <4> QED BY <4>1 DEF Watched!Next
    <3>5. CASE FallBack /\ seen' # seen
      <4>1. Watched!Retreat
        BY <2>1, <2>2, <3>1, <3>2, <3>3, <3>5 DEF FallBack, News, Watched!Retreat
      <4> QED BY <4>1 DEF Watched!Next
    <3>6. CASE FallBack /\ seen' = seen
      <4>1. sample # seen /\ UNCHANGED <<seen, fires>>
        BY <3>1, <3>6 DEF FallBack, News
      <4> QED BY <2>1, <4>1
    <3> QED BY <2>5, <3>4, <3>5, <3>6
  <2> QED BY <1>3, <2>3, <2>4, <2>5 DEF Diff
<1>4. CASE Cancel
  <2>1. Watched!End
    BY <1>4 DEF Cancel, tickUnchanged, tableUnchanged, Watched!End
  <2> QED BY <2>1 DEF Watched!Next
<1>5. CASE BeginTick \/ TickFails \/ \E q \in Replica : Poll(q)
  BY <1>5 DEF BeginTick, TickFails, Poll, tickUnchanged, tableUnchanged
<1>6. CASE \E q \in Replica : Replicate(q)
  BY <1>6 DEF Replicate, watchUnchanged
<1>7. CASE UNCHANGED vars
  BY <1>7 DEF vars
<1> QED BY <1>1, <1>2, <1>3, <1>4, <1>5, <1>6, <1>7 DEF Next, Done

\* Ticks, failed reads and lagging replicas implement the notifier that the host
\* is promised: one signal for each advance, each with a change of its own.
THEOREM WatchRefinement == Spec => NotifierSpec
<1>1. Init => Watched!Init
  BY WatchStarts
<1>2. WatchInv /\ [Next]_vars => [Watched!Next]_(Watched!notifier)
  BY WatchNotifies
<1> QED BY <1>1, <1>2, WatchInvariant, PTL DEF Spec, NotifierSpec, Watched!Spec
=============================================================================
