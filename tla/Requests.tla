------------------------------ MODULE Requests ------------------------------
(***************************************************************************)
(* What the operation handlers of exec.rs ask of a tool call's arguments   *)
(* before anything is sent to DynamoDB.                                    *)
(*                                                                         *)
(* A binding is abstracted to the record of Bindings: whether registration *)
(* accepts it, its operation, the declared key attribute names, the        *)
(* arguments its CEL params read, its surface and whether it pins a uri.   *)
(* The arguments of a call are abstracted to the record of Arguments:      *)
(* which arguments are there, which of those do not have the JSON type (or *)
(* the DynamoDB-JSON form) the handlers ask for, and the attribute names   *)
(* that the key, the item, the keys and the write requests mention, and    *)
(* whether every key value in them has the type its attribute is declared  *)
(* with (S, N or B), which the handlers do not look at.                    *)
(***************************************************************************)
EXTENDS Naturals, Sequences

CONSTANTS
    Attr,           \* attribute names
    ParamArg,       \* argument names that CEL params may read
    BatchMaxItems   \* items per batch request (25 in the code)

ASSUME BatchAssumption == BatchMaxItems \in Nat \ {0}

Operations == {"get_item", "put_item", "delete_item", "update_item",
               "query", "scan", "batch_get", "batch_write"}

Surfaces == {"tool", "resource", "prompt"}

\* The arguments whose absence a handler turns into a tool error.
Required ==
    [get_item    |-> {"key"},
     put_item    |-> {"item"},
     delete_item |-> {"key"},
     update_item |-> {"key", "update_expression"},
     query       |-> {"key_condition_expression"},
     scan        |-> {},
     batch_get   |-> {"keys"},
     batch_write |-> {"requests"}]

\* The arguments each write handler marshals or type-checks for conditions.
ConditionArgs == {"condition_expression", "expression_attribute_values",
                  "expression_attribute_names"}

\* The arguments query and scan share.
PageArgs == {"filter_expression", "projection_expression",
             "expression_attribute_values", "expression_attribute_names",
             "exclusive_start_key"}

\* The arguments whose wrong type a handler turns into a tool error. The flags
\* consistent_read and scan_index_forward, and limit, fall back to a default.
TypeChecked ==
    [get_item    |-> {"key", "projection_expression"},
     put_item    |-> {"item"} \cup ConditionArgs,
     delete_item |-> {"key"} \cup ConditionArgs,
     update_item |-> {"key", "update_expression", "return_values"}
                        \cup ConditionArgs,
     query       |-> {"key_condition_expression"} \cup PageArgs,
     scan        |-> PageArgs,
     batch_get   |-> {"keys", "projection_expression",
                      "expression_attribute_names"},
     batch_write |-> {"requests"}]

ArgNames == UNION {TypeChecked[op] : op \in Operations}

Bindings ==
    [accepted : BOOLEAN, op : Operations, keyNames : SUBSET Attr,
     params : SUBSET ParamArg, surface : Surfaces, staticUri : BOOLEAN]

\* The keys that a write handler looks at in an entry; it ignores all others.
WriteKinds == {"put", "delete"}

\* An entry of a batch_write: its own keys, with "stray" for any other than the
\* two, and the attribute names of what it puts or deletes.
WriteEntries ==
    [shape : SUBSET (WriteKinds \cup {"stray"}), names : SUBSET Attr]

Arguments ==
    [json : {"broken", "scalar", "object"}, present : SUBSET ArgNames,
     malformed : SUBSET ArgNames, scalars : SUBSET ParamArg, uri : BOOLEAN,
     key : SUBSET Attr, item : SUBSET Attr, keys : Seq(SUBSET Attr),
     requests : Seq(WriteEntries), typed : BOOLEAN]

-----------------------------------------------------------------------------

\* A key names exactly the declared key attributes.
ValidateKey(b, names) == names = b.keyNames

\* An item carries at least the declared key attributes.
CarriesKey(b, names) == b.keyNames \subseteq names

\* A batch is neither empty nor above the ceiling; nothing is cut off.
BatchSizeOk(batch) == Len(batch) \in 1 .. BatchMaxItems

ValidWrite(b, w) ==
    \/ w.shape \cap WriteKinds = {"put"} /\ CarriesKey(b, w.names)
    \/ w.shape \cap WriteKinds = {"delete"} /\ ValidateKey(b, w.names)

BatchKeysOk(b, keys) ==
    BatchSizeOk(keys) /\ \A i \in DOMAIN keys : ValidateKey(b, keys[i])

WriteRequestsOk(b, requests) ==
    BatchSizeOk(requests) /\ \A i \in DOMAIN requests : ValidWrite(b, requests[i])

\* The part of the arguments that addresses items respects the key schema.
AddressesKeySchema(b, a) ==
    /\ b.op \in {"get_item", "delete_item", "update_item"}
          => ValidateKey(b, a.key)
    /\ b.op = "put_item"    => CarriesKey(b, a.item)
    /\ b.op = "batch_get"   => BatchKeysOk(b, a.keys)
    /\ b.op = "batch_write" => WriteRequestsOk(b, a.requests)

\* The handler of b.op builds a request out of the arguments a.
Admissible(b, a) ==
    /\ a.json = "object"
    /\ Required[b.op] \subseteq a.present
    /\ TypeChecked[b.op] \cap a.malformed = {}
    /\ AddressesKeySchema(b, a)

\* The requests that address items by key carry key values of the declared type.
KeysTyped(b, a) == b.op \in {"query", "scan"} \/ a.typed

\* Every CEL param evaluates to a scalar over the call's arguments.
ParamsBind(b, a) == b.params \subseteq a.scalars

\* The uri of a resource read: the binding's own, else the call's.
ResourceUriKnown(b, a) == b.staticUri \/ a.uri

=============================================================================
