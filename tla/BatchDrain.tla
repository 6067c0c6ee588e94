----------------------------- MODULE BatchDrain -----------------------------
(***************************************************************************)
(* A caller works a batch off: it calls a batch_write or batch_get binding *)
(* with some of the entries, DynamoDB carries out a part of them, the      *)
(* answer names the others in unprocessed_items (unprocessed_keys), and    *)
(* the caller submits those again, verbatim.  Meanwhile others write the   *)
(* same keys, the SDK repeats a request whose answer is late, and the      *)
(* timeout of timed() gives a call up whose request may still be carried   *)
(* out.                                                                    *)
(*                                                                         *)
(* An entry is a { put }, a { delete } or a key to get; what it says is    *)
(* its identity, and the table records who wrote each key last.  A batch   *)
(* the plugin rejects (empty, or above BatchMaxItems) changes nothing.     *)
(***************************************************************************)
EXTENDS Naturals, FiniteSets

CONSTANTS
    Entry,          \* the entries the caller has
    KeyOf,          \* the key each one is about
    Deletes,        \* those that delete
    BatchMaxItems,  \* entries of one call
    MaxLate,        \* given-up requests that may still carry an entry out (a bound)
    Other, OtherDeleted  \* somebody else put, or deleted, the item of a key last

ASSUME EntryAssumption ==
    /\ Entry # {}
    /\ DOMAIN KeyOf = Entry
    /\ Deletes \subseteq Entry
    /\ {Other, OtherDeleted} \cap Entry = {}
    /\ Other # OtherDeleted
ASSUME FiniteAssumption == IsFiniteSet(Entry)
ASSUME BatchMaxAssumption == BatchMaxItems \in Nat \ {0} /\ MaxLate \in Nat \ {0}

Key == {KeyOf[e] : e \in Entry}

VARIABLES
    op,         \* "batch_get" or "batch_write"
    table,      \* who wrote each key last
    pc,         \* the caller: "idle", "awaiting" an answer, "drained"
    pending,    \* entries it still has to submit
    sent,       \* entries of the call under way
    done,       \* those DynamoDB carried out for its current attempt
    rows,       \* those for which a batch_get found an item
    late,       \* given-up attempts that may still carry an entry out
    applied,    \* how often each entry was carried out: 0, 1, or 2 for more
    givenUp,    \* entries that were in an attempt that was given up
    delivered,  \* how often the caller was given an item for each entry
    stable      \* keys that always had an item while being read

callVars == <<pc, pending, sent, done, rows, givenUp, delivered>>

vars == <<op, table, pc, pending, sent, done, rows, late, applied, givenUp, delivered, stable>>

TypeOK ==
    /\ op \in {"batch_get", "batch_write"}
    /\ table \in [Key -> Entry \cup {Other, OtherDeleted}]
    /\ pc \in {"idle", "awaiting", "drained"}
    /\ pending \subseteq Entry
    /\ sent \subseteq pending
    /\ done \subseteq sent
    /\ rows \subseteq done
    /\ late \in [Entry -> 0 .. MaxLate]
    /\ applied \in [Entry -> 0 .. 2]
    /\ givenUp \subseteq Entry
    /\ delivered \in [Entry -> Nat]
    /\ stable \subseteq Key

Occupied(k) == table[k] \notin Deletes \cup {OtherDeleted}

\* DynamoDB refuses a batch that names a key twice; the plugin does not look.
Distinct(batch) == \A e, f \in batch : KeyOf[e] = KeyOf[f] => e = f

Init ==
    /\ op \in {"batch_get", "batch_write"}
    /\ table \in [Key -> {Other, OtherDeleted}]
    /\ pc = "idle"
    /\ pending = Entry
    /\ sent = {} /\ done = {} /\ rows = {}
    /\ late = [e \in Entry |-> 0]
    /\ applied = [e \in Entry |-> 0]
    /\ givenUp = {}
    /\ delivered = [e \in Entry |-> 0]
    /\ stable = IF op = "batch_get" THEN {k \in Key : Occupied(k)} ELSE {}

-----------------------------------------------------------------------------
(* The table                                                               *)

\* Another user of the table puts or deletes the item of a key.
Interfere(k) ==
    /\ \E who \in {Other, OtherDeleted} :
        /\ table' = [table EXCEPT ![k] = who]
        /\ stable' = IF who = OtherDeleted THEN stable \ {k} ELSE stable
    /\ UNCHANGED <<op, late, applied>> /\ UNCHANGED callVars

CarryOut(e) ==
    /\ applied' = [applied EXCEPT ![e] = IF applied[e] = 0 THEN 1 ELSE 2]
    /\ table' = IF op = "batch_write" THEN [table EXCEPT ![KeyOf[e]] = e] ELSE table
    /\ stable' = IF op = "batch_write" /\ e \in Deletes THEN stable \ {KeyOf[e]} ELSE stable

\* DynamoDB carries out an entry of the current attempt, in any order.
Process(e) ==
    /\ pc = "awaiting" /\ Distinct(sent)
    /\ e \in sent \ done
    /\ CarryOut(e)
    /\ done' = done \cup {e}
    /\ rows' = IF op = "batch_get" /\ Occupied(KeyOf[e]) THEN rows \cup {e} ELSE rows
    /\ UNCHANGED <<op, pc, pending, sent, late, givenUp, delivered>>

\* The same for an attempt nobody waits for any more, which ends for this entry
\* when it has been carried out or is lost.
ProcessLate(e) ==
    /\ late[e] > 0
    /\ late' = [late EXCEPT ![e] = @ - 1]
    /\ CarryOut(e) \/ UNCHANGED <<applied, table, stable>>
    /\ UNCHANGED op /\ UNCHANGED callVars

-----------------------------------------------------------------------------
(* A call                                                                  *)

\* build_write_requests, batch_keys: what remains to be refused.
BatchSizeOk(batch) == batch # {} /\ Cardinality(batch) <= BatchMaxItems

Submit(batch) ==
    /\ pc = "idle"
    /\ batch \subseteq pending /\ BatchSizeOk(batch)
    /\ pc' = "awaiting"
    /\ sent' = batch /\ done' = {} /\ rows' = {}
    /\ UNCHANGED <<op, table, pending, late, applied, givenUp, delivered, stable>>

\* Variant: the answer has no unprocessed entries, as if all had been done.
NoneUnprocessed == {}

\* Variant: the whole batch is rendered.
AllUnprocessed == sent

\* unprocessed_items, unprocessed_keys
Unprocessed == sent \ done

EndCall(rest) ==
    /\ pending' = rest
    /\ pc' = IF rest = {} THEN "drained" ELSE "idle"
    /\ sent' = {} /\ done' = {} /\ rows' = {}
    /\ UNCHANGED <<op, table, applied, stable>>

\* Variant: the call does not wait for DynamoDB.
AnswerEarly ==
    /\ pc = "awaiting" /\ Distinct(sent)
    /\ \A e \in sent \ done : late[e] < MaxLate
    /\ late' = [e \in Entry |-> IF e \in sent \ done THEN late[e] + 1 ELSE late[e]]
    /\ EndCall(pending \ sent)
    /\ UNCHANGED <<givenUp, delivered>>

\* The answer arrives: items of a get, and what is left to be submitted.
\* DynamoDB never answers that it carried out nothing: that is an error.
Answer ==
    /\ pc = "awaiting" /\ done # {}
    /\ delivered' = [e \in Entry |->
                        IF op = "batch_get" /\ e \in rows THEN delivered[e] + 1
                        ELSE delivered[e]]
    /\ EndCall((pending \ sent) \cup Unprocessed)
    /\ UNCHANGED <<late, givenUp>>

\* Nothing was carried out (no capacity, or a key twice) and nothing will be.
DynamoRefuses ==
    /\ pc = "awaiting" /\ done = {}
    /\ EndCall(pending)
    /\ UNCHANGED <<late, givenUp, delivered>>

\* An attempt is given up: what it has not carried out it still may.
GiveUp ==
    /\ \A e \in sent \ done : late[e] < MaxLate
    /\ Distinct(sent)
    /\ late' = [e \in Entry |-> IF e \in sent \ done THEN late[e] + 1 ELSE late[e]]
    /\ givenUp' = givenUp \cup sent

\* The SDK repeats the request, all of it.
SdkRetry ==
    /\ pc = "awaiting"
    /\ GiveUp
    /\ done' = {} /\ rows' = {}
    /\ UNCHANGED <<op, table, pc, pending, sent, applied, delivered, stable>>

\* Variant: a call that timed out is taken for done.
TimeOutAsDone ==
    /\ pc = "awaiting"
    /\ GiveUp
    /\ EndCall(pending \ sent)
    /\ UNCHANGED delivered

\* timed() drops the request, or the SDK is out of attempts; the caller knows
\* nothing of the batch and keeps it.
TimeOut ==
    /\ pc = "awaiting"
    /\ GiveUp
    /\ EndCall(pending)
    /\ UNCHANGED delivered

Drained ==
    /\ pc = "drained" /\ \A e \in Entry : late[e] = 0
    /\ UNCHANGED vars

Next ==
    \/ \E k \in Key : Interfere(k)
    \/ \E e \in Entry : Process(e) \/ ProcessLate(e)
    \/ \E batch \in SUBSET Entry : Submit(batch)
    \/ Answer \/ DynamoRefuses \/ SdkRetry \/ TimeOut
    \/ Drained

Spec == Init /\ [][Next]_vars

\* A call ends. The caller does not for ever submit batches with a key twice,
\* nor does DynamoDB for ever carry out nothing or answer too late.
Fairness ==
    /\ WF_vars(DynamoRefuses \/ TimeOut)
    /\ SF_vars(\E batch \in SUBSET Entry : Distinct(batch) /\ Submit(batch))
    /\ SF_vars(\E e \in Entry : Process(e))
    /\ SF_vars(Answer)

FairSpec == Spec /\ Fairness

-----------------------------------------------------------------------------

\* An entry the caller is rid of was carried out: none is lost between what
\* DynamoDB did, what the answer calls unprocessed and what is submitted again,
\* whatever was given up on the way.
NothingLost == \A e \in Entry \ pending : applied[e] >= 1

\* An entry is carried out twice only if an attempt with it was given up:
\* submitting the unprocessed entries again repeats none of the others.
OnceUnlessGivenUp == \A e \in Entry : applied[e] > 1 => e \in givenUp

\* A batch_get gives the caller each item once, and every item that was there
\* all the time, however many calls and timeouts it took.
EachItemRead ==
    op = "batch_get" =>
        \A e \in Entry :
            /\ delivered[e] <= 1
            /\ e \notin pending /\ KeyOf[e] \in stable => delivered[e] = 1

\* What somebody else wrote after the caller was told that an entry is done is
\* not overwritten by that entry, unless an attempt with it was given up.
AcknowledgedStaysDone ==
    [][\A e \in Entry :
         table'[KeyOf[e]] = e /\ table[KeyOf[e]] # e => e \in pending \cup givenUp]_vars

\* What is known to be done is what was carried out for the call under way, and
\* only attempts that were given up are still out there.
CallInv ==
    /\ pc = "awaiting" \/ sent = {}
    /\ pc = "drained" => pending = {}
    /\ \A e \in done : applied[e] >= 1
    /\ \A e \in pending : applied[e] >= 1 => e \in done \cup givenUp
    /\ \A e \in Entry : late[e] > 0 => e \in givenUp

\* The items found for the call under way are all that are stable, and none of
\* them was delivered before.
ItemsInv ==
    /\ \A e \in pending : delivered[e] = 0
    /\ op = "batch_get" => \A e \in done : KeyOf[e] \in stable => e \in rows
    /\ \A k \in stable : Occupied(k)

\* Why the properties hold, as an inductive invariant.
DrainInv ==
    /\ TypeOK
    /\ CallInv
    /\ ItemsInv
    /\ NothingLost
    /\ OnceUnlessGivenUp
    /\ EachItemRead

\* Nothing comes back to the caller that it was rid of, and every answer rids it
\* of an entry: with n entries there are no more than n answers.
AnswersProgress ==
    [][/\ pending' \subseteq pending
       /\ Answer => Cardinality(pending') < Cardinality(pending)]_vars

\* The batch is worked off, though others write and calls time out.
Drains == <>(pc = "drained")

Batch == INSTANCE AtLeastOnce WITH doubtful <- givenUp

\* The calls, their retries and the unprocessed entries are at-least-once
\* delivery of independent entries.
AtLeastOnceSpec == Batch!Spec

=============================================================================
