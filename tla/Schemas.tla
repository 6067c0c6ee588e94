------------------------------ MODULE Schemas ------------------------------
(***************************************************************************)
(* The input schema that a binding advertises and the handlers that take   *)
(* the calls.  The two are written apart, the schema in lib.rs and the     *)
(* demands of the handlers in exec.rs (Requests), and only agree if each   *)
(* follows the other; a client that asks for the schema sees nothing else. *)
(*                                                                         *)
(* The arguments of a call are those of Requests, with more told of them:  *)
(* which have a JSON type (or an enum value) other than the advertised one *)
(* (the rest of the malformed ones are not DynamoDB-JSON), which optional  *)
(* ones are null, and which of those that fall back to a default are of    *)
(* another type.                                                           *)
(***************************************************************************)
EXTENDS Requests

CONSTANTS
    Offered,  \* the bindings that get registered
    Sendable, \* the calls that clients make
    Nil       \* no binding, no schema, no call

\* What is offered and sent has the types that Requests gives it.
ASSUME TypeAssumption ==
    /\ \A b \in Offered : b.op \in Operations
    /\ \A op \in Operations : \A a \in Sendable[op] :
          /\ a.malformed \subseteq ArgNames /\ a.mistyped \subseteq a.malformed
          /\ a.keys \in Seq(SUBSET Attr) /\ a.requests \in Seq(WriteEntries)

VARIABLES
    served,   \* the registered binding, or Nil
    schema,   \* the client's schema of this binding, or Nil
    toolCall  \* the client's call and what became of it

schemasVars == <<served, schema, toolCall>>

-----------------------------------------------------------------------------
(* The schema                                                              *)

\* The properties that op_input_schema gives a type.
Advertised ==
    [get_item    |-> {"key", "consistent_read", "projection_expression"},
     put_item    |-> {"item", "condition_expression",
                      "expression_attribute_values", "expression_attribute_names"},
     delete_item |-> {"key", "condition_expression",
                      "expression_attribute_values", "expression_attribute_names"},
     update_item |-> {"key", "update_expression", "condition_expression",
                      "expression_attribute_values", "expression_attribute_names",
                      "return_values"},
     query       |-> {"key_condition_expression", "filter_expression",
                      "projection_expression", "expression_attribute_values",
                      "expression_attribute_names", "exclusive_start_key",
                      "consistent_read", "scan_index_forward", "limit"},
     scan        |-> {"filter_expression", "projection_expression",
                      "expression_attribute_values", "expression_attribute_names",
                      "exclusive_start_key", "limit"},
     batch_get   |-> {"keys", "consistent_read", "projection_expression",
                      "expression_attribute_names"},
     batch_write |-> {"requests"}]

\* The properties it requires.
Demanded ==
    [get_item    |-> {"key"},
     put_item    |-> {"item"},
     delete_item |-> {"key"},
     update_item |-> {"key", "update_expression"},
     query       |-> {"key_condition_expression"},
     scan        |-> {},
     batch_get   |-> {"keys"},
     batch_write |-> {"requests"}]

\* The schema of a key: the declared attributes, all of them and no others.
KeySchema(keyNames, names) == names = keyNames

\* The schema of a write request: put, delete, and no other keys. It requires
\* neither and permits both.
EntrySchema(entry) == entry.shape \subseteq WriteKinds

\* Variant: a hint replaces the property of the same name.
WithHintsInserted(typed, hints) == [typed |-> typed \ hints, all |-> typed \cup hints]

\* The names that CEL params mention are added without a type, unless there is
\* a property of that name.
WithHints(typed, hints) == [typed |-> typed, all |-> typed \cup hints]

\* Variant: what params mention is required.
InputSchemaHintsRequired(b) ==
    [keyNames |-> b.keyNames,
     properties |-> WithHints(Advertised[b.op], b.hints),
     required |-> Demanded[b.op] \cup b.hints]

InputSchema(b) ==
    [keyNames |-> b.keyNames,
     properties |-> WithHints(Advertised[b.op], b.hints),
     required |-> Demanded[b.op]]

\* The arguments validate against the schema. The object is open, keys and write
\* requests are not; a batch has at most the 25 entries that its maxItems says.
Conforms(s, a) ==
    LET typed == s.properties.typed
    IN /\ a.json = "object"
       /\ s.required \subseteq a.present
       /\ typed \cap (a.mistyped \cup a.nulls \cup a.defaulted) = {}
       /\ "key" \in typed \cap a.present => KeySchema(s.keyNames, a.key)
       /\ "keys" \in typed \cap a.present =>
            /\ Len(a.keys) <= BatchMaxItems
            /\ \A i \in DOMAIN a.keys : KeySchema(s.keyNames, a.keys[i])
       /\ "requests" \in typed \cap a.present =>
            /\ Len(a.requests) <= BatchMaxItems
            /\ \A i \in DOMAIN a.requests : EntrySchema(a.requests[i])

-----------------------------------------------------------------------------

SchemasInit ==
    /\ served = Nil
    /\ schema = Nil
    /\ toolCall = Nil

\* A schema of an earlier binding promises nothing any more. (A call keeps the
\* binding it found, DynamodbBackend; here it is one step.)
RegisterProfile ==
    /\ toolCall = Nil
    /\ \E b \in Offered : served' = b
    /\ schema' = Nil
    /\ UNCHANGED toolCall

\* input_schema, for a name that is registered.
FetchSchema ==
    /\ served # Nil
    /\ schema' = InputSchema(served)
    /\ UNCHANGED <<served, toolCall>>

\* The params are evaluated and the handler builds its request, or the call is
\* refused with a tool error. Arguments that are null count as absent.
Execute ==
    /\ served # Nil /\ toolCall = Nil
    /\ \E a \in Sendable[served.op] :
         toolCall' = [args |-> a,
                     taken |-> ParamsBind(served, a) /\ Admissible(served, a)]
    /\ UNCHANGED <<served, schema>>

ReturnOutcome ==
    /\ toolCall # Nil
    /\ toolCall' = Nil
    /\ UNCHANGED <<served, schema>>

SchemasNext == RegisterProfile \/ FetchSchema \/ Execute \/ ReturnOutcome

SchemasSpec == SchemasInit /\ [][SchemasNext]_schemasVars

-----------------------------------------------------------------------------

\* The client has the schema of the binding that served its call.
Judged == toolCall # Nil /\ schema # Nil

\* A schema and a call at hand are of the binding that is registered.
SchemasInv ==
    /\ served \in Offered \cup {Nil}
    /\ schema # Nil => served \in Offered /\ schema = InputSchema(served)
    /\ toolCall # Nil =>
         /\ served \in Offered
         /\ toolCall.args \in Sendable[served.op]
         /\ toolCall.taken <=> ParamsBind(served, toolCall.args)
                                 /\ Admissible(served, toolCall.args)

\* What the schema does not say of the arguments that it admits.
Untold(b, a) ==
    \/ a.malformed \ a.mistyped # {}
    \/ ~ParamsBind(b, a)
    \/ b.op = "put_item" /\ ~CarriesKey(b, a.item)
    \/ b.op = "batch_get" /\ a.keys = <<>>
    \/ b.op = "batch_write" /\ \/ a.requests = <<>>
                               \/ \E i \in DOMAIN a.requests :
                                     ~ValidWrite(b, a.requests[i])

\* A call that keeps to the schema is refused for what the schema does not say
\* and for nothing else: the schema hides no demand of the handler.
ConformingCallsAreTaken ==
    Judged /\ Conforms(schema, toolCall.args) /\ ~toolCall.taken
      => Untold(served, toolCall.args)

\* What the handlers forgive though the schema forbids it: optional arguments
\* that are null, flags and limits of another type, which become the default,
\* and other keys of a write request, which are ignored.
Forgiven(b, a) ==
    \/ a.nulls # {}
    \/ a.defaulted # {}
    \/ b.op = "batch_write" /\ \E i \in DOMAIN a.requests : "stray" \in a.requests[i].shape

\* A call that the handler takes keeps to the schema, unless it uses what the
\* handlers forgive: a client that holds to the schema forgoes nothing else.
\* Hints never reject arguments.
TakenCallsConform ==
    Judged /\ toolCall.taken
      => Forgiven(served, toolCall.args) \/ Conforms(schema, toolCall.args)
=============================================================================
