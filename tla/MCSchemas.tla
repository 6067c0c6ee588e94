----------------------------- MODULE MCSchemas -----------------------------
(* A binding of each operation, and the calls that a client can get wrong  *)
(* in one way, or in one way and one thing that the handlers forgive.      *)
EXTENDS Schemas

CONSTANTS pk, sk, other, who

MCBinding(op, keyNames, hints, params) ==
    [accepted |-> TRUE, op |-> op, keyNames |-> keyNames, params |-> params,
     hints |-> hints, surface |-> "tool", staticUri |-> FALSE]

\* Params that read nothing, an argument of their own, or one of the operation.
MCOffered ==
    {MCBinding(op, keyNames, hints, params) :
        op \in Operations, keyNames \in {{pk}, {pk, sk}},
        hints \in {{}, {who}, {who, "key", "filter_expression"}},
        params \in {{}, {who}}}

AtMostOne(S) == {{}} \cup {{x} : x \in S}

WithDefault == {"consistent_read", "scan_index_forward", "limit"}

Call(present, malformed, mistyped, nulls, defaulted) ==
    [json |-> "object", present |-> present \ nulls, malformed |-> malformed,
     mistyped |-> mistyped \cap malformed, nulls |-> nulls,
     defaulted |-> defaulted, scalars |-> {who}, uri |-> TRUE,
     key |-> {pk}, item |-> {pk, other}, keys |-> <<{pk}, {pk}>>,
     requests |-> <<[shape |-> {"put"}, names |-> {pk, other}],
                    [shape |-> {"delete"}, names |-> {pk}]>>,
     typed |-> TRUE]

\* Everything that could be sent, the least, and what may be missing.
Presents(op) ==
    {Advertised[op], Required[op]} \cup {Required[op] \ {x} : x \in Required[op]}

Batch(k) == [i \in 1 .. k |-> {pk}]

Writes(k, shape, names) == [i \in 1 .. k |-> [shape |-> shape, names |-> names]]

MCSendable ==
    [op \in Operations |->
        LET plain == {Call(P, M, T, N, D) :
                         P \in Presents(op), M \in AtMostOne(TypeChecked[op]),
                         T \in {{}, ArgNames},
                         N \in AtMostOne(Advertised[op] \ Required[op]),
                         D \in AtMostOne(Advertised[op] \cap WithDefault)}
            good == Call(Advertised[op], {}, {}, {}, {})
        IN plain \cup
           {[good EXCEPT !.json = "scalar"], [good EXCEPT !.scalars = {}],
            [good EXCEPT !.item = {other}], [good EXCEPT !.key = {pk, sk}],
            [good EXCEPT !.key = {pk, other}], [good EXCEPT !.key = {}],
            [good EXCEPT !.item = {pk, sk}]}
           \cup {[good EXCEPT !.keys = Batch(k)] : k \in 0 .. BatchMaxItems + 1}
           \cup {[good EXCEPT !.requests = Writes(k, shape, names)] :
                    k \in 0 .. BatchMaxItems + 1,
                    shape \in SUBSET {"put", "delete", "stray"},
                    names \in {{pk}, {pk, sk}, {other}}}]
=============================================================================
