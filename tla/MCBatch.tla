------------------------------ MODULE MCBatch ------------------------------
(* Three entries on two keys, one of them a deletion; calls of two entries. *)
EXTENDS BatchDrain

CONSTANTS put1, delete1, put2

MCEntry == {put1, delete1, put2}
MCDeletes == {delete1}
MCKeyOf == [e \in MCEntry |-> IF e = put2 THEN 2 ELSE 1]

=============================================================================
