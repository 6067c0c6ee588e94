---------------------------- MODULE MCRelisting ----------------------------
(* Three tables, two of them with the same key schema and another order. *)
EXTENDS Relisting

CONSTANTS orders, archive, users

MCTable == {orders, archive, users}
MCRoom == [t \in MCTable |-> IF t = orders THEN 1 .. 3 ELSE IF t = archive THEN {1, 2} ELSE {2}]
MCSchemaOf == [t \in MCTable |-> IF t = users THEN "user" ELSE "order"]
MCPlace == [t \in MCTable |-> [k \in Key |-> IF t = archive THEN Keys - k ELSE k]]
MCBindings ==
    {[table |-> orders,  lists |-> TRUE,  page |-> 1],
     [table |-> orders,  lists |-> TRUE,  page |-> 2],
     [table |-> archive, lists |-> TRUE,  page |-> 2],
     [table |-> users,   lists |-> TRUE,  page |-> 2],
     [table |-> orders,  lists |-> FALSE, page |-> 1]}

=============================================================================
