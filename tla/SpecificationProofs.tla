------------------------ MODULE SpecificationProofs ------------------------
(***************************************************************************)
(* What registration guarantees to every later call, for every field an    *)
(* operator may write and whatever the ceilings are; and what the schema   *)
(* of a registered binding tells of the calls that its handler takes, for  *)
(* all bindings and all calls.                                             *)
(***************************************************************************)
EXTENDS Specification, Schemas, WellFoundedInduction, TLAPS

-----------------------------------------------------------------------------
(* The checks                                                              *)

\* What a specification without faults promises to the calls.
LEMMA Faultless ==
    ASSUME NEW d, Faults(d) = {}
    PROVE  /\ d["max_page_size"] \in 1 .. PageCeiling
           /\ d["uri_attribute"] # None /\ d["list_values"] # None
                => Marshals(d["list_values"])
           /\ d["value_attribute"] # None /\ d["completion_values"] # None
                => Marshals(d["completion_values"])
<1> DEFINE cs == AllChecks(d)
<1>1. ~cs[9].fails /\ ~cs[16].fails /\ ~cs[20].fails
  <2>1. 9 \in DOMAIN cs /\ 16 \in DOMAIN cs /\ 20 \in DOMAIN cs
    BY DEF AllChecks
  <2> QED BY <2>1 DEF Faults
<1>2. d["max_page_size"] \in 1 .. PageCeiling
  <2>1. cs[9].fails = (d["max_page_size"] \notin 1 .. PageCeiling)
    BY DEF AllChecks, Check
  <2> QED BY <1>1, <2>1, Zenon
<1>3. d["uri_attribute"] # None /\ d["list_values"] # None
        => Marshals(d["list_values"])
  <2>1. cs[16].fails = (d["uri_attribute"] # None /\ d["list_values"] # None
                          /\ ~Marshals(d["list_values"]))
    BY DEF AllChecks, ValuesCheck, Check
  <2> QED BY <1>1, <2>1, Zenon
<1>4. d["value_attribute"] # None /\ d["completion_values"] # None
        => Marshals(d["completion_values"])
  <2>1. cs[20].fails = (d["value_attribute"] # None /\ d["completion_values"] # None
                          /\ ~Marshals(d["completion_values"]))
    BY DEF AllChecks, ValuesCheck, Check
  <2> QED BY <1>1, <2>1, Zenon
<1> QED BY <1>2, <1>3, <1>4

\* The clamp stays within the binding's page size.
LEMMA ClampedInRange ==
    ASSUME NEW n \in Int, NEW max \in Nat \ {0}
    PROVE  Clamped(n, max) \in 1 .. max
BY DEF Clamped

\* There is a first among the faults.
LEMMA FirstFault ==
    ASSUME NEW d, Faults(d) # {}
    PROVE  LET first == CHOOSE i \in Faults(d) : \A j \in Faults(d) : i <= j
           IN first \in Faults(d) /\ \A j \in Faults(d) : first <= j
<1>1. Faults(d) \subseteq 1 .. 21
  BY DEF Faults, AllChecks
<1>2. \E i \in Faults(d) : \A j \in Faults(d) : i <= j
  <2> DEFINE T == Faults(d)
  <2>0. T \subseteq Nat /\ T # {}
    BY <1>1
  <2> HIDE DEF T
  <2>1. PICK i \in T : \A j \in T : ~ (<<j, i>> \in OpToRel(<, Nat))
    BY <2>0, NatLessThanWellFounded, WFMin
  <2> USE DEF T
  <2> QED BY <1>1, <2>1 DEF OpToRel
<1> QED BY <1>2

-----------------------------------------------------------------------------
(* The invariant                                                           *)

LEMMA SpecStep == SpecInv /\ [Next]_vars => SpecInv'
<1> SUFFICES ASSUME SpecInv, [Next]_vars PROVE SpecInv'
  OBVIOUS
<1> USE DEF SpecInv
<1>1. CASE Edit
  <2>1. /\ draft' = [f \in Fields |-> draft'[f]]
        /\ \A f \in Fields : draft'[f] \in Choices[f]
    BY <1>1 DEF Edit
  <2>2. verdict' = 0 /\ binding' = binding /\ call' = call
    BY <1>1 DEF Edit
  <2> QED BY <2>1, <2>2
<1>2. CASE Repair
  <2>1. /\ draft' = [f \in Fields |-> draft'[f]]
        /\ \A f \in Fields : draft'[f] \in Choices[f]
    BY <1>2, ChoicesAssumption DEF Repair
  <2>2. repaired' = TRUE /\ binding' = binding /\ call' = call /\ verdict' = verdict
    BY <1>2 DEF Repair
  <2> QED BY <2>1, <2>2
<1>3. CASE Register
  <2>1. draft' = draft /\ call' = call /\ call = NoCall
    BY <1>3 DEF Register
  <2>2. CASE Faults(draft) = {}
    <3>1. verdict' = 0 /\ binding' = draft
      BY <1>3, <2>2 DEF Register
    <3> QED BY <2>1, <2>2, <3>1
  <2>3. CASE Faults(draft) # {}
    <3>1. /\ verdict' = CHOOSE i \in Faults(draft) : \A j \in Faults(draft) : i <= j
          /\ binding' = binding
      BY <1>3, <2>3 DEF Register
    <3>2. verdict' \in Faults(draft)
      BY <2>3, <3>1, FirstFault
    <3>3. Faults(draft') = Faults(draft)
      BY <2>1
    <3> QED BY <2>1, <3>1, <3>2, <3>3
  <2> QED BY <2>2, <2>3
<1>4. CASE List
  <2>1. UNCHANGED <<draft, binding, verdict, repaired>> /\ binding # None
        /\ binding["uri_attribute"] # None
    BY <1>4 DEF List
  <2>2. binding["list_values"] = None \/ Marshals(binding["list_values"])
    BY <2>1, Faultless
  <2>3. binding["max_page_size"] \in Nat \ {0} /\ binding["page_size"] \in Int
    BY <2>1, Faultless, CeilingAssumption, NumbersAssumption
  <2>4. /\ call'.st = "sent"
        /\ call'.limit = Clamped(binding["page_size"], binding["max_page_size"])
    BY <1>4, <2>2 DEF List, Build
  <2>5. call'.limit \in 1 .. binding["max_page_size"]
    BY <2>3, <2>4, ClampedInRange
  <2> QED BY <2>1, <2>4, <2>5
<1>5. CASE Complete
  <2> DEFINE asked == IF binding["max_results"] = None THEN DefaultResults
                      ELSE binding["max_results"]
  <2>1. UNCHANGED <<draft, binding, verdict, repaired>> /\ binding # None
        /\ binding["value_attribute"] # None
    BY <1>5 DEF Complete
  <2>2. binding["completion_values"] = None \/ Marshals(binding["completion_values"])
    BY <2>1, Faultless
  <2>3. binding["max_page_size"] \in Nat \ {0} /\ asked \in Int
    BY <2>1, Faultless, CeilingAssumption, NumbersAssumption
  <2>4. /\ call'.st = "sent"
        /\ call'.limit = Clamped(asked, binding["max_page_size"])
    BY <1>5, <2>2 DEF Complete, Build
  <2>5. call'.limit \in 1 .. binding["max_page_size"]
    <3> HIDE DEF asked
    <3> QED BY <2>3, <2>4, ClampedInRange
  <2> QED BY <2>1, <2>4, <2>5
<1>6. CASE Return
  BY <1>6 DEF Return
<1>7. CASE UNCHANGED vars
  BY <1>7 DEF vars
<1> QED BY <1>1, <1>2, <1>3, <1>4, <1>5, <1>6, <1>7 DEF Next

\* The inductive invariant: what is registered is without faults, and every
\* request of a call was built of it.
THEOREM SpecInvariant == Spec => []SpecInv
<1>1. Init => SpecInv
  BY ChoicesAssumption DEF Init, SpecInv, NoCall
<1> QED BY <1>1, SpecStep, PTL DEF Spec

\* A call on a registered binding is never refused for its specification.
THEOREM SpecIsNotBlamed == Spec => []CallsNeverBlameTheSpec
<1>1. SpecInv => CallsNeverBlameTheSpec
  BY DEF SpecInv, CallsNeverBlameTheSpec, NoCall
<1> QED BY <1>1, SpecInvariant, PTL

\* Every Limit that is sent is one DynamoDB takes.
THEOREM LimitsAreInRange == Spec => []LimitsInRange
<1>1. SpecInv => LimitsInRange
  <2> SUFFICES ASSUME SpecInv, call # NoCall
               PROVE  /\ call.limit \in 1 .. binding["max_page_size"]
                      /\ binding["max_page_size"] <= PageCeiling
    BY DEF LimitsInRange
  <2>1. Faults(binding) = {} /\ call.limit \in 1 .. binding["max_page_size"]
    BY DEF SpecInv
  <2>2. binding["max_page_size"] \in 1 .. PageCeiling
    BY <2>1, Faultless
  <2> QED BY <2>1, <2>2, CeilingAssumption
<1> QED BY <1>1, SpecInvariant, PTL

-----------------------------------------------------------------------------
(* Refusals and repairs                                                    *)

\* The faults are the checks that fail.
LEMMA FaultsFail ==
    ASSUME NEW d
    PROVE  /\ Faults(d) \subseteq 1 .. 21
           /\ \A i \in 1 .. 21 : i \in Faults(d) <=> AllChecks(d)[i].fails
BY DEF Faults, AllChecks

\* What each check looks for.
LEMMA ChecksFail ==
    ASSUME NEW d
    PROVE  /\ AllChecks(d)[1].fails <=> d["json"] = "mistyped"
           /\ AllChecks(d)[2].fails <=> d["region"] = "blank"
           /\ AllChecks(d)[3].fails <=> ~IsValidTableName(d["table"])
           /\ AllChecks(d)[4].fails <=>
                (d["partition_key"] # None /\ ~IsValidAttrName(d["partition_key"]))
           /\ AllChecks(d)[5].fails <=>
                (d["sort_key"] # None /\ ~IsValidAttrName(d["sort_key"]))
           /\ AllChecks(d)[6].fails <=>
                (d["endpoint_url"] # None /\ ~IsAllowedEndpoint(d["endpoint_url"]))
           /\ AllChecks(d)[7].fails <=> d["access_key_id"] \in {"empty", "blank"}
           /\ AllChecks(d)[8].fails <=> d["secret_access_key"] = "empty"
           /\ AllChecks(d)[9].fails <=> d["max_page_size"] \notin 1 .. PageCeiling
           /\ AllChecks(d)[10].fails <=> d["max_response_bytes"] = 0
           /\ AllChecks(d)[11].fails <=> d["timeout_ms"] = 0
           /\ AllChecks(d)[12].fails <=> (d["uri"] # None /\ d["surface"] # "resource")
           /\ AllChecks(d)[13].fails <=> d["uri"] = "blank"
           /\ AllChecks(d)[14].fails <=> d["uri_attribute"] = "blank"
           /\ AllChecks(d)[15].fails <=>
                (d["uri_attribute"] # None /\ d["page_size"] \notin 1 .. PageCeiling)
           /\ AllChecks(d)[16].fails <=>
                (d["uri_attribute"] # None /\ d["list_values"] # None
                   /\ ~Marshals(d["list_values"]))
           /\ AllChecks(d)[17].fails <=> d["params"] = "without_colon"
           /\ AllChecks(d)[18].fails <=>
                (d["value_attribute"] # None /\ ~MentionsPrefix(d["key_condition"]))
           /\ AllChecks(d)[19].fails <=> d["value_attribute"] = "blank"
           /\ AllChecks(d)[20].fails <=>
                (d["value_attribute"] # None /\ d["completion_values"] # None
                   /\ ~Marshals(d["completion_values"]))
           /\ AllChecks(d)[21].fails <=> d["params"] = "not_cel"
BY DEF AllChecks, Check, KeyCheck, ValuesCheck

\* What each check names does not depend on what it finds.
LEMMA NamesAre ==
    ASSUME NEW d
    PROVE  /\ DOMAIN AllChecks(d) = 1 .. 21
           /\ AllChecks(d)[1].names = {"json"}
           /\ AllChecks(d)[2].names = {"region"}
           /\ AllChecks(d)[3].names = {"table"}
           /\ AllChecks(d)[4].names = {"partition_key"}
           /\ AllChecks(d)[5].names = {"sort_key"}
           /\ AllChecks(d)[6].names = {"endpoint_url"}
           /\ AllChecks(d)[7].names = {"access_key_id"}
           /\ AllChecks(d)[8].names = {"secret_access_key"}
           /\ AllChecks(d)[9].names = {"max_page_size"}
           /\ AllChecks(d)[10].names = {"max_response_bytes"}
           /\ AllChecks(d)[11].names = {"timeout_ms"}
           /\ AllChecks(d)[12].names = {"uri", "surface"}
           /\ AllChecks(d)[13].names = {"uri"}
           /\ AllChecks(d)[14].names = {"uri_attribute"}
           /\ AllChecks(d)[15].names = {"page_size"}
           /\ AllChecks(d)[16].names = {"list_values"}
           /\ AllChecks(d)[17].names = {"params"}
           /\ AllChecks(d)[18].names = {"key_condition"}
           /\ AllChecks(d)[19].names = {"value_attribute"}
           /\ AllChecks(d)[20].names = {"completion_values"}
           /\ AllChecks(d)[21].names = {"params"}
BY DEF AllChecks, Check, KeyCheck, ValuesCheck

\* Two specifications are checked under the same names.
LEMMA SameNames ==
    ASSUME NEW d, NEW e, NEW i \in 1 .. 21
    PROVE  AllChecks(d)[i].names = AllChecks(e)[i].names
<1>1. /\ AllChecks(d)[1].names = AllChecks(e)[1].names
      /\ AllChecks(d)[2].names = AllChecks(e)[2].names
      /\ AllChecks(d)[3].names = AllChecks(e)[3].names
      /\ AllChecks(d)[4].names = AllChecks(e)[4].names
      /\ AllChecks(d)[5].names = AllChecks(e)[5].names
      /\ AllChecks(d)[6].names = AllChecks(e)[6].names
      /\ AllChecks(d)[7].names = AllChecks(e)[7].names
      /\ AllChecks(d)[8].names = AllChecks(e)[8].names
      /\ AllChecks(d)[9].names = AllChecks(e)[9].names
      /\ AllChecks(d)[10].names = AllChecks(e)[10].names
      /\ AllChecks(d)[11].names = AllChecks(e)[11].names
      /\ AllChecks(d)[12].names = AllChecks(e)[12].names
      /\ AllChecks(d)[13].names = AllChecks(e)[13].names
      /\ AllChecks(d)[14].names = AllChecks(e)[14].names
      /\ AllChecks(d)[15].names = AllChecks(e)[15].names
      /\ AllChecks(d)[16].names = AllChecks(e)[16].names
      /\ AllChecks(d)[17].names = AllChecks(e)[17].names
      /\ AllChecks(d)[18].names = AllChecks(e)[18].names
      /\ AllChecks(d)[19].names = AllChecks(e)[19].names
      /\ AllChecks(d)[20].names = AllChecks(e)[20].names
      /\ AllChecks(d)[21].names = AllChecks(e)[21].names
  BY DEF AllChecks, Check, KeyCheck, ValuesCheck
<1> QED BY <1>1

\* Every field that a check reads is a field.
LEMMA CheckedFields ==
    {"json", "region", "table", "partition_key", "sort_key", "endpoint_url",
     "access_key_id", "secret_access_key", "max_page_size", "max_response_bytes",
     "timeout_ms", "uri", "surface", "uri_attribute", "page_size", "list_values",
     "params", "key_condition", "value_attribute", "completion_values"}
      \subseteq Fields
<1>1. \A i \in 1 .. 21 : AllChecks(Base)[i].names \subseteq Fields
  BY BaseAssumption, NamesAre
<1> QED BY <1>1, NamesAre

\* The specification with the fields repaired that check v names.
Repaired(d, v) ==
    [f \in Fields |-> IF f \in AllChecks(d)[v].names THEN Base[f] ELSE d[f]]

\* What a check finds depends on the fields that it names, and for those of a
\* listing or a completion on whether there is one.
LEMMA ChecksRead ==
    ASSUME NEW d, NEW e, NEW j \in 1 .. 21,
           \A f \in AllChecks(e)[j].names : d[f] = e[f],
           j \in {15, 16} => (d["uri_attribute"] = None <=> e["uri_attribute"] = None),
           j \in {18, 20} => (d["value_attribute"] = None <=> e["value_attribute"] = None)
    PROVE  AllChecks(d)[j].fails <=> AllChecks(e)[j].fails
<1> DEFINE listed == d["uri_attribute"] = None <=> e["uri_attribute"] = None
           completed == d["value_attribute"] = None <=> e["value_attribute"] = None
<1>1. d["json"] = e["json"]
           => (AllChecks(d)[1].fails <=> AllChecks(e)[1].fails)
  BY ChecksFail
<1>2. d["region"] = e["region"]
           => (AllChecks(d)[2].fails <=> AllChecks(e)[2].fails)
  BY ChecksFail
<1>3. d["table"] = e["table"]
           => (AllChecks(d)[3].fails <=> AllChecks(e)[3].fails)
  BY ChecksFail
<1>4. d["partition_key"] = e["partition_key"]
           => (AllChecks(d)[4].fails <=> AllChecks(e)[4].fails)
  BY ChecksFail
<1>5. d["sort_key"] = e["sort_key"]
           => (AllChecks(d)[5].fails <=> AllChecks(e)[5].fails)
  BY ChecksFail
<1>6. d["endpoint_url"] = e["endpoint_url"]
           => (AllChecks(d)[6].fails <=> AllChecks(e)[6].fails)
  BY ChecksFail
<1>7. d["access_key_id"] = e["access_key_id"]
           => (AllChecks(d)[7].fails <=> AllChecks(e)[7].fails)
  BY ChecksFail
<1>8. d["secret_access_key"] = e["secret_access_key"]
           => (AllChecks(d)[8].fails <=> AllChecks(e)[8].fails)
  BY ChecksFail
<1>9. d["max_page_size"] = e["max_page_size"]
           => (AllChecks(d)[9].fails <=> AllChecks(e)[9].fails)
  BY ChecksFail
<1>10. d["max_response_bytes"] = e["max_response_bytes"]
           => (AllChecks(d)[10].fails <=> AllChecks(e)[10].fails)
  BY ChecksFail
<1>11. d["timeout_ms"] = e["timeout_ms"]
           => (AllChecks(d)[11].fails <=> AllChecks(e)[11].fails)
  BY ChecksFail
<1>12. d["uri"] = e["uri"] /\ d["surface"] = e["surface"]
           => (AllChecks(d)[12].fails <=> AllChecks(e)[12].fails)
  BY ChecksFail
<1>13. d["uri"] = e["uri"]
           => (AllChecks(d)[13].fails <=> AllChecks(e)[13].fails)
  BY ChecksFail
<1>14. d["uri_attribute"] = e["uri_attribute"]
           => (AllChecks(d)[14].fails <=> AllChecks(e)[14].fails)
  BY ChecksFail
<1>15. d["page_size"] = e["page_size"] /\ listed
           => (AllChecks(d)[15].fails <=> AllChecks(e)[15].fails)
  BY ChecksFail
<1>16. d["list_values"] = e["list_values"] /\ listed
           => (AllChecks(d)[16].fails <=> AllChecks(e)[16].fails)
  BY ChecksFail
<1>17. d["params"] = e["params"]
           => (AllChecks(d)[17].fails <=> AllChecks(e)[17].fails)
  BY ChecksFail
<1>18. d["key_condition"] = e["key_condition"] /\ completed
           => (AllChecks(d)[18].fails <=> AllChecks(e)[18].fails)
  BY ChecksFail
<1>19. d["value_attribute"] = e["value_attribute"]
           => (AllChecks(d)[19].fails <=> AllChecks(e)[19].fails)
  BY ChecksFail
<1>20. d["completion_values"] = e["completion_values"] /\ completed
           => (AllChecks(d)[20].fails <=> AllChecks(e)[20].fails)
  BY ChecksFail
<1>21. d["params"] = e["params"]
           => (AllChecks(d)[21].fails <=> AllChecks(e)[21].fails)
  BY ChecksFail
<1> QED BY <1>1, <1>2, <1>3, <1>4, <1>5, <1>6, <1>7, <1>8, <1>9, <1>10, <1>11, <1>12, <1>13, <1>14, <1>15, <1>16, <1>17, <1>18, <1>19, <1>20, <1>21, NamesAre

\* Repairing what the first check that fails names makes that check pass, and no
\* earlier one fail.
LEMMA RepairPasses ==
    ASSUME NEW d, NEW v \in Faults(d), \A j \in Faults(d) : v <= j
    PROVE  \A j \in Faults(Repaired(d, v)) : v < j
<1> DEFINE e == Repaired(d, v)
           names == AllChecks(d)[v].names
<1>1. v \in 1 .. 21 /\ Faults(e) \subseteq 1 .. 21
  BY FaultsFail
<1>2. /\ AllChecks(d)[v].fails
      /\ \A j \in 1 .. 21 : j < v => ~AllChecks(d)[j].fails
      /\ \A j \in 1 .. 21 : ~AllChecks(Base)[j].fails
  BY <1>1, BaseAssumption, FaultsFail
<1>3. \A f \in Fields : e[f] = IF f \in names THEN Base[f] ELSE d[f]
  BY DEF Repaired
<1> HIDE DEF e
<1>4. e["uri_attribute"] = None <=> d["uri_attribute"] = None
  <2>1. CASE v = 14
    <3>1. d["uri_attribute"] = "blank"
      BY <1>2, <2>1, ChecksFail
    <3>2. e["uri_attribute"] = Base["uri_attribute"] \/ e["uri_attribute"] = d["uri_attribute"]
      BY <1>3, CheckedFields
    <3> QED BY <3>1, <3>2, BaseAssumption, NoneAssumption
  <2>2. CASE v # 14
    <3>1. "uri_attribute" \notin names
      BY <1>1, <2>2, NamesAre
    <3> QED BY <1>3, <3>1, CheckedFields
  <2> QED BY <2>1, <2>2
<1>5. e["value_attribute"] = None <=> d["value_attribute"] = None
  <2>1. CASE v = 19
    <3>1. d["value_attribute"] = "blank"
      BY <1>2, <2>1, ChecksFail
    <3>2. e["value_attribute"] = Base["value_attribute"] \/ e["value_attribute"] = d["value_attribute"]
      BY <1>3, CheckedFields
    <3> QED BY <3>1, <3>2, BaseAssumption, NoneAssumption
  <2>2. CASE v # 19
    <3>1. "value_attribute" \notin names
      BY <1>1, <2>2, NamesAre
    <3> QED BY <1>3, <3>1, CheckedFields
  <2> QED BY <2>1, <2>2
<1>6. ASSUME NEW j \in 1 .. 21, j <= v, j # 12 PROVE ~AllChecks(e)[j].fails
  <2>1. PICK f \in Fields : AllChecks(e)[j].names = {f} /\ AllChecks(d)[j].names = {f}
    BY <1>6, CheckedFields, NamesAre
  <2>2. CASE f \in names
    <3>1. e[f] = Base[f]
      BY <1>3, <2>2
    <3>2. CASE \/ j \in {15, 16} /\ e["uri_attribute"] = None
               \/ j \in {18, 20} /\ e["value_attribute"] = None
      BY <3>2, ChecksFail
    <3>3. CASE /\ j \in {15, 16} => e["uri_attribute"] # None
               /\ j \in {18, 20} => e["value_attribute"] # None
      BY <1>2, <2>1, <3>1, <3>3, BaseAssumption, ChecksRead
    <3> QED BY <3>2, <3>3
  <2>3. CASE f \notin names
    <3>1. j < v /\ e[f] = d[f]
      BY <1>1, <1>3, <1>6, <2>1, <2>3
    <3> QED BY <1>2, <1>4, <1>5, <2>1, <3>1, ChecksRead
  <2> QED BY <2>2, <2>3
<1>7. ASSUME 12 <= v PROVE ~AllChecks(e)[12].fails
  <2>1. CASE v = 12
    <3>1. e["uri"] = Base["uri"] /\ e["surface"] = Base["surface"]
      BY <1>3, <2>1, CheckedFields, NamesAre
    <3>2. ~AllChecks(Base)[12].fails
      BY <1>2
    <3> QED BY <3>1, <3>2, ChecksFail
  <2>2. CASE v = 13
    <3>1. d["surface"] = "resource"
      <4>1. AllChecks(d)[13].fails /\ ~AllChecks(d)[12].fails
        BY <1>2, <2>2
      <4>2. d["uri"] = "blank"
        BY <4>1, ChecksFail
      <4>3. ~(d["uri"] # None /\ d["surface"] # "resource")
        BY <4>1, ChecksFail
      <4> QED BY <4>2, <4>3, NoneAssumption
    <3>2. "surface" \notin names
      BY <2>2, NamesAre
    <3>3. e["surface"] = "resource"
      BY <1>3, <3>1, <3>2, CheckedFields
    <3> QED BY <3>3, ChecksFail
  <2>3. CASE v > 13
    <3>1. "uri" \notin names /\ "surface" \notin names
      BY <1>1, <2>3, NamesAre
    <3>2. e["uri"] = d["uri"] /\ e["surface"] = d["surface"]
      BY <1>3, <3>1, CheckedFields
    <3>3. ~AllChecks(d)[12].fails
      BY <1>1, <1>2, <2>3
    <3> QED BY <3>2, <3>3, ChecksFail
  <2> QED BY <1>1, <1>7, <2>1, <2>2, <2>3
<1>8. \A j \in 1 .. 21 : j <= v => ~AllChecks(e)[j].fails
  BY <1>1, <1>6, <1>7
<1>9. \A j \in Faults(e) : j \in 1 .. 21 /\ AllChecks(e)[j].fails
  BY <1>1, FaultsFail
<1> QED BY <1>1, <1>8, <1>9 DEF e

LEMMA RepairStep == SpecInv /\ RepairInv /\ [Next]_vars => RepairInv'
<1> SUFFICES ASSUME SpecInv, RepairInv, [Next]_vars, verdict' # 0
             PROVE  /\ verdict' \in DOMAIN AllChecks(draft')
                    /\ ~repaired' => /\ verdict' \in Faults(draft')
                                     /\ \A j \in Faults(draft') : verdict' <= j
                    /\ repaired' => /\ \A j \in Faults(draft') : verdict' < j
                                    /\ \A f \in AllChecks(draft')[verdict'].names :
                                          draft'[f] = Base[f]
  BY DEF RepairInv
<1>1. CASE Edit
  BY <1>1 DEF Edit
<1>2. CASE Repair
  <2> DEFINE names == AllChecks(draft)[verdict].names
  <2>1. /\ verdict' = verdict /\ verdict # 0 /\ repaired' = TRUE
        /\ draft' = Repaired(draft, verdict)
    BY <1>2 DEF Repair, Repaired
  <2>2. /\ verdict \in 1 .. 21
        /\ DOMAIN AllChecks(draft') = 1 .. 21
        /\ AllChecks(draft')[verdict].names = names
    <3>1. verdict \in 1 .. 21
      BY <2>1, NamesAre DEF RepairInv
    <3> QED BY <3>1, NamesAre, SameNames
  <2>3. names \subseteq Fields
    <3>1. DOMAIN AllChecks(Base) = 1 .. 21 /\ names = AllChecks(Base)[verdict].names
      BY <2>2, NamesAre, SameNames
    <3> QED BY <2>2, <3>1, BaseAssumption
  <2>4. \A f \in names : draft'[f] = Base[f]
    BY <2>1, <2>3 DEF Repaired
  <2>5. \A j \in Faults(draft') : verdict < j
    <3>1. CASE ~repaired
      <4>1. verdict \in Faults(draft) /\ \A j \in Faults(draft) : verdict <= j
        BY <2>1, <3>1 DEF RepairInv
      <4> QED BY <2>1, <4>1, RepairPasses
    <3>2. CASE repaired
      <4>1. /\ \A j \in Faults(draft) : verdict < j
            /\ \A f \in names : draft[f] = Base[f]
        BY <2>1, <3>2 DEF RepairInv
      <4>2. draft' = draft
        BY <2>1, <2>3, <4>1 DEF SpecInv, Repaired
      <4> QED BY <4>1, <4>2
    <3> QED BY <3>1, <3>2 DEF SpecInv
  <2> QED BY <2>1, <2>2, <2>4, <2>5
<1>3. CASE Register
  <2>1. draft' = draft /\ repaired' = FALSE
    BY <1>3 DEF Register
  <2>2. Faults(draft) # {}
    BY <1>3 DEF Register
  <2>3. verdict' = CHOOSE i \in Faults(draft) : \A j \in Faults(draft) : i <= j
    BY <1>3, <2>2 DEF Register
  <2>4. verdict' \in Faults(draft) /\ \A j \in Faults(draft) : verdict' <= j
    BY <2>2, <2>3, FirstFault
  <2>5. verdict' \in DOMAIN AllChecks(draft)
    BY <2>4 DEF Faults
  <2> QED BY <2>1, <2>4, <2>5
<1>4. CASE List \/ Complete \/ Return \/ UNCHANGED vars
  <2>1. UNCHANGED <<draft, verdict, repaired>>
    BY <1>4 DEF List, Complete, Return, vars
  <2> QED BY <2>1 DEF RepairInv
<1> QED BY <1>1, <1>2, <1>3, <1>4 DEF Next

\* What a refusal says of the draft, throughout the edits and repairs that
\* follow it.
THEOREM RefusalsAreFirst == Spec => []RepairInv
<1>1. Init => RepairInv
  BY DEF Init, RepairInv
<1> QED BY <1>1, RepairStep, SpecInvariant, PTL DEF Spec

\* Who repairs what each refusal names gets through: the next refusal is of a
\* later check, and there are no more than 21.
THEOREM RepairsArrive == Spec => RepairsGetFurther
<1>1. RepairInv /\ [Next]_vars
        => [Register /\ repaired => verdict' = 0 \/ verdict' > verdict]_vars
  <2> SUFFICES ASSUME RepairInv, Register, repaired, verdict' # 0
               PROVE  verdict' > verdict
    OBVIOUS
  <2>1. Faults(draft) # {}
    BY DEF Register
  <2>2. verdict' = CHOOSE i \in Faults(draft) : \A j \in Faults(draft) : i <= j
    BY <2>1 DEF Register
  <2>3. verdict' \in Faults(draft) /\ Faults(draft) \subseteq 1 .. 21
    BY <2>1, <2>2, FirstFault, FaultsFail
  <2>4. CASE verdict = 0
    BY <2>3, <2>4
  <2>5. CASE verdict # 0
    <3>1. verdict \in 1 .. 21 /\ \A j \in Faults(draft) : verdict < j
      BY <2>5, NamesAre DEF RepairInv
    <3> QED BY <2>3, <3>1
  <2> QED BY <2>4, <2>5
<1> QED BY <1>1, RefusalsAreFirst, PTL DEF Spec, RepairsGetFurther

-----------------------------------------------------------------------------
(* The schema that is advertised                                           *)

\* Neither a call, nor the operator who registers another binding under the name,
\* leaves a client with a schema or a verdict that is of no registered binding.
LEMMA ClientStep == SchemasInv /\ [SchemasNext]_schemasVars => SchemasInv'
<1> SUFFICES ASSUME SchemasInv, [SchemasNext]_schemasVars
             PROVE  SchemasInv'
  OBVIOUS
<1> USE DEF SchemasInv
<1>1. CASE RegisterProfile
  BY <1>1 DEF RegisterProfile
<1>2. CASE FetchSchema
  BY <1>2 DEF FetchSchema
<1>3. CASE Execute
  <2>1. /\ served' = served /\ schema' = schema
        /\ served \in Offered
    BY <1>3 DEF Execute
  <2>2. PICK a \in Sendable[served.op] :
           toolCall' = [args |-> a,
                        taken |-> ParamsBind(served, a)
                                    /\ Admissible(served, a)]
    BY <1>3 DEF Execute
  <2>3. /\ toolCall'.args = a
        /\ toolCall'.taken <=> ParamsBind(served, a)
                                 /\ Admissible(served, a)
    BY <2>2
  <2> QED BY <2>1, <2>3
<1>4. CASE ReturnOutcome
  BY <1>4 DEF ReturnOutcome
<1>5. CASE UNCHANGED schemasVars
  BY <1>5 DEF schemasVars
<1> QED BY <1>1, <1>2, <1>3, <1>4, <1>5 DEF SchemasNext

\* A schema and a call at hand are of the binding that is registered.
THEOREM SchemaIsOfBinding == SchemasSpec => []SchemasInv
<1>1. SchemasInit => SchemasInv
  BY DEF SchemasInit, SchemasInv
<1> QED BY <1>1, ClientStep, PTL DEF SchemasSpec

\* The two lists that are kept apart by hand: the schema requires what the
\* handler does, gives every argument that the handler checks a type, and gives
\* a type to no argument of other handlers.
LEMMA SchemaFollowsHandlers ==
    ASSUME NEW op \in Operations
    PROVE  /\ Demanded[op] = Required[op]
           /\ TypeChecked[op] \subseteq Advertised[op]
           /\ Advertised[op] \cap ArgNames \subseteq TypeChecked[op]
           /\ "key" \in Advertised[op]
                <=> op \in {"get_item", "delete_item", "update_item"}
           /\ "keys" \in Advertised[op] <=> op = "batch_get"
           /\ "requests" \in Advertised[op] <=> op = "batch_write"
BY DEF Operations, Demanded, Required, TypeChecked, Advertised, ArgNames,
       ConditionArgs, PageArgs

\* The schema hides no demand of a handler: whatever the bindings and the calls
\* are, a call that keeps to op_input_schema and is refused is refused for one of
\* the things that no schema could say.
THEOREM ConformingCalls == SchemasSpec => []ConformingCallsAreTaken
<1>1. SchemasInv => ConformingCallsAreTaken
  <2> DEFINE b == served
             a == toolCall.args
  <2> SUFFICES ASSUME SchemasInv, Judged,
                      Conforms(schema, a), ~toolCall.taken,
                      ~Untold(b, a)
               PROVE  FALSE
    BY DEF ConformingCallsAreTaken
  <2>1. /\ b \in Offered /\ schema = InputSchema(b)
        /\ a \in Sendable[b.op]
        /\ ~(ParamsBind(b, a) /\ Admissible(b, a))
    BY DEF SchemasInv, Judged
  <2>2. /\ b.op \in Operations
        /\ a.keys \in Seq(SUBSET Attr) /\ a.requests \in Seq(WriteEntries)
    BY <2>1, TypeAssumption
  <2>3. /\ schema.properties.typed = Advertised[b.op]
        /\ schema.required = Demanded[b.op]
        /\ schema.keyNames = b.keyNames
    BY <2>1 DEF InputSchema, WithHints
  <2>4. /\ ParamsBind(b, a)
        /\ a.malformed \ a.mistyped = {}
    BY DEF Untold
  <2>5. a.json = "object" /\ Required[b.op] \subseteq a.present
    BY <2>2, <2>3, SchemaFollowsHandlers DEF Conforms
  <2>6. TypeChecked[b.op] \cap a.malformed = {}
    BY <2>2, <2>3, <2>4, SchemaFollowsHandlers DEF Conforms
  <2>7. AddressesKeySchema(b, a)
    <3>1. CASE b.op \in {"get_item", "delete_item", "update_item"}
      <4>1. "key" \in Advertised[b.op] \cap a.present
        BY <2>2, <2>5, <3>1, SchemaFollowsHandlers DEF Required
      <4>2. a.key = b.keyNames
        BY <2>3, <4>1 DEF Conforms, KeySchema
      <4> QED BY <3>1, <4>2 DEF AddressesKeySchema, ValidateKey
    <3>2. CASE b.op = "put_item"
      BY <3>2 DEF Untold, AddressesKeySchema
    <3>3. CASE b.op = "batch_get"
      <4>1. "keys" \in Advertised[b.op] \cap a.present
        BY <2>2, <2>5, <3>3, SchemaFollowsHandlers DEF Required
      <4>2. /\ Len(a.keys) <= BatchMaxItems
            /\ \A i \in DOMAIN a.keys : a.keys[i] = b.keyNames
        BY <2>3, <4>1 DEF Conforms, KeySchema
      <4>3. Len(a.keys) \in Nat /\ Len(a.keys) # 0
        BY <2>2, <3>3 DEF Untold
      <4> QED BY <3>3, <4>2, <4>3 DEF AddressesKeySchema, BatchKeysOk,
                 BatchSizeOk, ValidateKey
    <3>4. CASE b.op = "batch_write"
      <4>1. "requests" \in Advertised[b.op] \cap a.present
        BY <2>2, <2>5, <3>4, SchemaFollowsHandlers DEF Required
      <4>2. Len(a.requests) <= BatchMaxItems
        BY <2>3, <4>1 DEF Conforms
      <4>3. /\ Len(a.requests) \in Nat /\ Len(a.requests) # 0
            /\ \A i \in DOMAIN a.requests : ValidWrite(b, a.requests[i])
        BY <2>2, <3>4 DEF Untold
      <4> QED BY <3>4, <4>2, <4>3 DEF AddressesKeySchema,
                 WriteRequestsOk, BatchSizeOk
    <3> QED BY <2>2, <3>1, <3>2, <3>3, <3>4
            DEF Operations, AddressesKeySchema
  <2> QED BY <2>1, <2>4, <2>5, <2>6, <2>7 DEF Admissible
<1> QED BY <1>1, SchemaIsOfBinding, PTL

\* The schema demands no more than the handler: a call that is taken keeps to it,
\* if it has no nulls, no values that the handlers replace by a default, and no
\* keys of a write request that they ignore.
THEOREM TakenCalls == SchemasSpec => []TakenCallsConform
<1>1. SchemasInv => TakenCallsConform
  <2> DEFINE b == served
             a == toolCall.args
             typed == schema.properties.typed
  <2> SUFFICES ASSUME SchemasInv, Judged, toolCall.taken,
                      ~Forgiven(b, a)
               PROVE  Conforms(schema, a)
    BY DEF TakenCallsConform
  <2>1. /\ b \in Offered /\ schema = InputSchema(b)
        /\ a \in Sendable[b.op]
        /\ Admissible(b, a)
    BY DEF SchemasInv, Judged
  <2>2. /\ b.op \in Operations
        /\ a.malformed \subseteq ArgNames /\ a.mistyped \subseteq a.malformed
        /\ a.requests \in Seq(WriteEntries)
        /\ a.nulls = {} /\ a.defaulted = {}
    BY <2>1, TypeAssumption DEF Forgiven
  <2>3. /\ typed = Advertised[b.op]
        /\ schema.required = Demanded[b.op]
        /\ schema.keyNames = b.keyNames
    BY <2>1 DEF InputSchema, WithHints
  <2>4. /\ a.json = "object"
        /\ schema.required \subseteq a.present
        /\ TypeChecked[b.op] \cap a.malformed = {}
        /\ AddressesKeySchema(b, a)
    BY <2>1, <2>2, <2>3, SchemaFollowsHandlers DEF Admissible
  <2>5. typed \cap (a.mistyped \cup a.nulls \cup a.defaulted) = {}
    BY <2>2, <2>3, <2>4, SchemaFollowsHandlers
  <2>6. "key" \in typed => KeySchema(schema.keyNames, a.key)
    BY <2>2, <2>3, <2>4, SchemaFollowsHandlers
       DEF AddressesKeySchema, ValidateKey, KeySchema
  <2>7. "keys" \in typed =>
          /\ Len(a.keys) <= BatchMaxItems
          /\ \A i \in DOMAIN a.keys : KeySchema(schema.keyNames, a.keys[i])
    BY <2>2, <2>3, <2>4, SchemaFollowsHandlers
       DEF AddressesKeySchema, BatchKeysOk, BatchSizeOk,
           ValidateKey, KeySchema
  <2>8. "requests" \in typed =>
          /\ Len(a.requests) <= BatchMaxItems
          /\ \A i \in DOMAIN a.requests : EntrySchema(a.requests[i])
    <3>1. SUFFICES ASSUME b.op = "batch_write"
                   PROVE  /\ Len(a.requests) <= BatchMaxItems
                          /\ \A i \in DOMAIN a.requests : EntrySchema(a.requests[i])
      BY <2>2, <2>3, SchemaFollowsHandlers
    <3>2. Len(a.requests) <= BatchMaxItems
      BY <2>4, <3>1 DEF AddressesKeySchema, WriteRequestsOk, BatchSizeOk
    <3>3. ASSUME NEW i \in DOMAIN a.requests PROVE EntrySchema(a.requests[i])
      <4>1. a.requests[i] \in WriteEntries /\ "stray" \notin a.requests[i].shape
        BY <2>2, <3>1, <3>3 DEF Forgiven
      <4> QED BY <4>1 DEF WriteEntries, EntrySchema
    <3> QED BY <3>2, <3>3
  <2> QED BY <2>4, <2>5, <2>6, <2>7, <2>8 DEF Conforms
<1> QED BY <1>1, SchemaIsOfBinding, PTL
=============================================================================
