--------------------------- MODULE Specification ---------------------------
(***************************************************************************)
(* The specification of a binding: what parse, validate and compile_params *)
(* let through, in their order, and the requests that the listing and the  *)
(* completions build from a specification that was let through.  The code  *)
(* looks at the same fields twice, once when it registers a binding and    *)
(* again at every call; in between nothing tells it that they were fine.   *)
(*                                                                         *)
(* A specification is a function from its fields; texts are abstracted to  *)
(* the classes that the checks tell apart, and URLs to their tokens.       *)
(***************************************************************************)
EXTENDS Integers, Sequences, FiniteSets

CONSTANTS
    PageCeiling,     \* the largest page (1000)
    DefaultResults,  \* max_results where there is none (100)
    Choices,         \* what operators write, per field
    Base,            \* a specification without faults, with a listing and
                     \* a completion
    MaxEdits,        \* fields in which draft and binding differ from it
    None             \* a field that is left out, no binding

Fields == DOMAIN Base

ASSUME CeilingAssumption == PageCeiling \in Nat \ {0}
ASSUME NumbersAssumption ==
    /\ DefaultResults \in Int
    /\ {"max_page_size", "page_size", "max_results"} \subseteq Fields
    /\ Choices["max_page_size"] \subseteq Int
    /\ Choices["page_size"] \subseteq Int
    /\ Choices["max_results"] \subseteq Int \cup {None}
ASSUME ChoicesAssumption ==
    /\ DOMAIN Choices = Fields
    /\ Base = [f \in Fields |-> Base[f]]
    /\ \A f \in Fields : Base[f] \in Choices[f]
ASSUME NoneAssumption == None \notin Int /\ None # "blank"

VARIABLES
    draft,     \* the specification being written
    binding,   \* the specification that is registered, or None
    verdict,   \* the check that refused the last registration; 0 for none
    repaired,  \* whether only what that check named has changed since
    call       \* the request of the call at hand

vars == <<draft, binding, verdict, repaired, call>>

-----------------------------------------------------------------------------
(* The checks                                                              *)

\* The hosts that http:// is allowed for.
Loopback == {<<"localhost">>, <<"127.0.0.1">>, <<"[", ":", ":", "1", "]">>}

\* What stands before the first slash or colon.
Host(rest) ==
    LET ends == {i \in DOMAIN rest : rest[i] \in {"/", ":"}}
    IN IF ends = {} THEN rest
       ELSE SubSeq(rest, 1, (CHOOSE i \in ends : \A j \in ends : i <= j) - 1)

IsAllowedEndpoint(url) ==
    \/ Head(url) = "https://" /\ Tail(url) # <<>>
    \/ Head(url) = "http://" /\ Host(Tail(url)) \in Loopback

IsValidTableName(table) == table.length \in 3 .. 255 /\ table.clean

IsValidAttrName(name) == name = "clean"

\* Marshals as an item of DynamoDB-JSON.
Marshals(map) == map \in {"empty", "filled"}

\* contains(":prefix"), of the placeholder in a key condition.
MentionsPrefix(placeholder) == placeholder \in {":prefix", ":prefixes"}

Check(names, fails) == [names |-> names, fails |-> fails]

\* Variant: what fails on a key attribute is reported of the partition key.
KeyCheckMisnamed(field, d) ==
    Check({"partition_key"}, d[field] # None /\ ~IsValidAttrName(d[field]))

KeyCheck(field, d) ==
    Check({field}, d[field] # None /\ ~IsValidAttrName(d[field]))

\* Variant: fixed values are left to the calls.
ValuesCheckLazy(field, used, d) == Check({field}, FALSE)

\* Fixed values of a listing or completion that is there.
ValuesCheck(field, used, d) ==
    Check({field}, used /\ d[field] # None /\ ~Marshals(d[field]))

\* The checks in their order. compile_params comes last; a listing is there
\* when it has a uri_attribute, a completion when it has a value_attribute.
AllChecks(d) ==
    LET listed == d["uri_attribute"] # None
        completed == d["value_attribute"] # None
    IN <<Check({"json"}, d["json"] = "mistyped"),
         Check({"region"}, d["region"] = "blank"),
         Check({"table"}, ~IsValidTableName(d["table"])),
         KeyCheck("partition_key", d),
         KeyCheck("sort_key", d),
         Check({"endpoint_url"},
               d["endpoint_url"] # None /\ ~IsAllowedEndpoint(d["endpoint_url"])),
         Check({"access_key_id"}, d["access_key_id"] \in {"empty", "blank"}),
         Check({"secret_access_key"}, d["secret_access_key"] = "empty"),
         Check({"max_page_size"}, d["max_page_size"] \notin 1 .. PageCeiling),
         Check({"max_response_bytes"}, d["max_response_bytes"] = 0),
         Check({"timeout_ms"}, d["timeout_ms"] = 0),
         Check({"uri", "surface"}, d["uri"] # None /\ d["surface"] # "resource"),
         Check({"uri"}, d["uri"] = "blank"),
         Check({"uri_attribute"}, d["uri_attribute"] = "blank"),
         Check({"page_size"}, listed /\ d["page_size"] \notin 1 .. PageCeiling),
         ValuesCheck("list_values", listed, d),
         Check({"params"}, d["params"] = "without_colon"),
         Check({"key_condition"}, completed /\ ~MentionsPrefix(d["key_condition"])),
         Check({"value_attribute"}, d["value_attribute"] = "blank"),
         ValuesCheck("completion_values", completed, d),
         Check({"params"}, d["params"] = "not_cel")>>

\* The positions of the checks that fail.
Faults(d) == LET cs == AllChecks(d) IN {i \in DOMAIN cs : cs[i].fails}

ASSUME BaseAssumption ==
    /\ Faults(Base) = {}
    /\ Base["uri_attribute"] # None /\ Base["value_attribute"] # None
    /\ \A i \in DOMAIN AllChecks(Base) : AllChecks(Base)[i].names \subseteq Fields

-----------------------------------------------------------------------------
(* The limits of what is sent                                              *)

\* Variant: the clamp that only cuts.
ClampedAbove(n, max) == IF n > max THEN max ELSE n

\* n.min(max_page_size).max(1)
Clamped(n, max) ==
    IF n > max THEN IF max < 1 THEN 1 ELSE max ELSE IF n < 1 THEN 1 ELSE n

-----------------------------------------------------------------------------

NoCall == [st |-> "idle", kind |-> "none", limit |-> 0, values |-> None]

Init ==
    /\ draft = Base
    /\ binding = None
    /\ verdict = 0
    /\ repaired = FALSE
    /\ call = NoCall

Edits(d) == Cardinality({f \in Fields : d[f] # Base[f]})

\* The operator writes something else into a field.
Edit ==
    /\ call = NoCall
    /\ \E f \in Fields : \E v \in Choices[f] : draft' = [draft EXCEPT ![f] = v]
    /\ Edits(draft') + (IF binding = None THEN 0 ELSE Edits(binding)) <= MaxEdits
    /\ verdict' = 0
    /\ repaired' = FALSE
    /\ UNCHANGED <<binding, call>>

\* The operator repairs the fields that the refusal named.
Repair ==
    /\ verdict # 0 /\ call = NoCall
    /\ draft' = [f \in Fields |->
                    IF f \in AllChecks(draft)[verdict].names THEN Base[f]
                    ELSE draft[f]]
    /\ repaired' = TRUE
    /\ UNCHANGED <<binding, verdict, call>>

\* register_profile: the first check that fails refuses the specification and
\* leaves the registered one alone.
Register ==
    /\ call = NoCall
    /\ LET faults == Faults(draft)
       IN IF faults = {}
          THEN verdict' = 0 /\ binding' = draft
          ELSE /\ verdict' = CHOOSE i \in faults : \A j \in faults : i <= j
               /\ UNCHANGED binding
    /\ repaired' = FALSE
    /\ UNCHANGED <<draft, call>>

\* A call that builds its request from the binding, or is refused with
\* InvalidSpec because the binding's own values do not marshal.
Build(kind, values, limit) ==
    call' = [st |-> IF values = None \/ Marshals(values) THEN "sent"
                    ELSE "invalid_spec",
             kind |-> kind, limit |-> limit, values |-> values]

\* resources/list with a list_query.
List ==
    /\ call = NoCall /\ binding # None
    /\ binding["uri_attribute"] # None
    /\ Build("list", binding["list_values"],
             Clamped(binding["page_size"], binding["max_page_size"]))
    /\ UNCHANGED <<draft, binding, verdict, repaired>>

\* completion/complete of a variable that has one; `:prefix` joins the values.
Complete ==
    /\ call = NoCall /\ binding # None
    /\ binding["value_attribute"] # None
    /\ Build("complete", binding["completion_values"],
             Clamped(IF binding["max_results"] = None THEN DefaultResults
                     ELSE binding["max_results"],
                     binding["max_page_size"]))
    /\ UNCHANGED <<draft, binding, verdict, repaired>>

Return ==
    /\ call # NoCall
    /\ call' = NoCall
    /\ UNCHANGED <<draft, binding, verdict, repaired>>

Next == Edit \/ Repair \/ Register \/ List \/ Complete \/ Return

Spec == Init /\ [][Next]_vars

-----------------------------------------------------------------------------

\* No call is told that its binding's specification is invalid: what the calls
\* refuse was refused at registration.
CallsNeverBlameTheSpec == call.st # "invalid_spec"

\* The Limit of a request is one that DynamoDB takes and never above the
\* binding's page size, whatever page_size and max_results say.
LimitsInRange ==
    call # NoCall => call.limit \in 1 .. binding["max_page_size"]
                     /\ binding["max_page_size"] <= PageCeiling

\* A refusal names what has to change: once that is repaired, the next refusal
\* is of a later check. An operator who follows the messages arrives.
RepairsGetFurther ==
    [][Register /\ repaired => verdict' = 0 \/ verdict' > verdict]_vars

\* What is registered passed every check, and a call's request is built of it.
SpecInv ==
    /\ draft = [f \in Fields |-> draft[f]]
    /\ \A f \in Fields : draft[f] \in Choices[f]
    /\ binding # None => Faults(binding) = {}
                         /\ \A f \in Fields : binding[f] \in Choices[f]
    /\ verdict # 0 /\ ~repaired => verdict \in Faults(draft)
    /\ call # NoCall => /\ binding # None
                        /\ call.st = "sent"
                        /\ call.limit \in 1 .. binding["max_page_size"]

\* What a refusal says of the draft: its check is the first that fails, and once
\* repaired the first that fails is a later one.
RepairInv ==
    verdict # 0 =>
      /\ verdict \in DOMAIN AllChecks(draft)
      /\ ~repaired => /\ verdict \in Faults(draft)
                      /\ \A j \in Faults(draft) : verdict <= j
      /\ repaired => /\ \A j \in Faults(draft) : verdict < j
                     /\ \A f \in AllChecks(draft)[verdict].names : draft[f] = Base[f]
=============================================================================
