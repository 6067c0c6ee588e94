------------------------------ MODULE MCBackend ------------------------------
(* Small instances of DynamodbBackend. *)
EXTENDS DynamodbBackend

CONSTANTS pk, other, p

\* Two bindings that registration accepts and one it refuses.
getItem ==
    [accepted |-> TRUE, op |-> "get_item", keyNames |-> {pk}, params |-> {},
     surface |-> "tool", staticUri |-> FALSE]

updateItem ==
    [accepted |-> TRUE, op |-> "update_item", keyNames |-> {pk},
     params |-> {p}, surface |-> "resource", staticUri |-> FALSE]

batchWrite ==
    [accepted |-> TRUE, op |-> "batch_write", keyNames |-> {pk},
     params |-> {}, surface |-> "prompt", staticUri |-> FALSE]

badRegion == [getItem EXCEPT !.accepted = FALSE]

\* A call that names one item, and the ways it can be wrong.
goodArgs ==
    [json |-> "object", present |-> ArgNames, malformed |-> {},
     scalars |-> {p}, uri |-> TRUE, key |-> {pk}, item |-> {pk, other},
     keys |-> <<{pk}>>, requests |-> <<[shape |-> {"put"}, names |-> {pk}]>>,
     typed |-> TRUE]

notJson      == [goodArgs EXCEPT !.json = "broken", !.scalars = {}]
notObject    == [goodArgs EXCEPT !.json = "scalar", !.scalars = {}]
noParam      == [goodArgs EXCEPT !.scalars = {}]
noUri        == [goodArgs EXCEPT !.uri = FALSE]
foreignKey   == [goodArgs EXCEPT !.key = {pk, other},
                                 !.requests[1].shape = {"put", "delete"}]
mistypedKey  == [goodArgs EXCEPT !.typed = FALSE]

missing      == [goodArgs EXCEPT !.present = {}]
malformed    == [goodArgs EXCEPT !.malformed = ArgNames]
emptyBatch   == [goodArgs EXCEPT !.keys = <<>>, !.requests = <<>>]
strayEntry   == [goodArgs EXCEPT !.requests[1].shape = {"put", "stray"}]
largeBatch   == [goodArgs EXCEPT
                   !.requests = [i \in 1 .. BatchMaxItems + 1 |-> @[1]]]

AllBindings == {getItem, updateItem, batchWrite, badRegion}
AllArgs     == {goodArgs, notJson, notObject, noParam, noUri, foreignKey,
                mistypedKey, missing, malformed, emptyBatch, strayEntry, largeBatch}
=============================================================================
