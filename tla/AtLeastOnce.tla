---------------------------- MODULE AtLeastOnce ----------------------------
(***************************************************************************)
(* What a caller who works a batch off by batch_write or batch_get may     *)
(* rely on: every entry it need not submit any more was carried out; one   *)
(* that is not in doubt was carried out once, and before that was said of  *)
(* it.  There are no requests here, no attempts and no size limit, and     *)
(* entries are independent: a batch is not atomic.                         *)
(***************************************************************************)
EXTENDS Naturals

CONSTANTS
    Entry,      \* the entries of the batch
    KeyOf,      \* the key each one is about
    Deletes,    \* those that delete
    Other, OtherDeleted  \* somebody else put, or deleted, the item of a key last

VARIABLES
    op,       \* "batch_get" or "batch_write"
    table,    \* who wrote each key last
    pending,  \* entries the caller still has to submit
    applied,  \* how often each was carried out: 0, 1, or 2 for more
    doubtful  \* entries of requests that were given up

abstractVars == <<op, table, pending, applied, doubtful>>

Init ==
    /\ op \in {"batch_get", "batch_write"}
    /\ table \in [{KeyOf[e] : e \in Entry} -> {Other, OtherDeleted}]
    /\ pending = Entry
    /\ applied = [e \in Entry |-> 0]
    /\ doubtful = {}

\* An entry is carried out. Again, only if it is in doubt whether it was.
Apply(e) ==
    /\ (e \in pending /\ applied[e] = 0) \/ e \in doubtful
    /\ applied' = [applied EXCEPT ![e] = IF applied[e] = 0 THEN 1 ELSE 2]
    /\ table' = IF op = "batch_write" THEN [table EXCEPT ![KeyOf[e]] = e] ELSE table
    /\ UNCHANGED <<op, pending, doubtful>>

\* The caller learns that some entries are done.
Acknowledge(entries) ==
    /\ entries \subseteq pending
    /\ \A e \in entries : applied[e] >= 1
    /\ pending' = pending \ entries
    /\ UNCHANGED <<op, table, applied, doubtful>>

\* A request is given up without an answer.
Doubt(entries) ==
    /\ entries \subseteq pending
    /\ doubtful' = doubtful \cup entries
    /\ UNCHANGED <<op, table, pending, applied>>

Interfere(k) ==
    /\ \E who \in {Other, OtherDeleted} : table' = [table EXCEPT ![k] = who]
    /\ UNCHANGED <<op, pending, applied, doubtful>>

Next ==
    \/ \E e \in Entry : Apply(e)
    \/ \E entries \in SUBSET Entry : Acknowledge(entries) \/ Doubt(entries)
    \/ \E k \in {KeyOf[e] : e \in Entry} : Interfere(k)

Spec == Init /\ [][Next]_abstractVars

=============================================================================
