------------------------------- MODULE Marshal -------------------------------
(***************************************************************************)
(* The marshaller between DynamoDB-JSON at the tool boundary and the SDK's *)
(* AttributeValue, at work in a client's read-modify-write loop: an item   *)
(* is sent and stored, read back and sent again, while other programs      *)
(* write items of their own, with types the SDK may not know.              *)
(*                                                                         *)
(* A JSON value and an attribute value are pairs of a type and a content:  *)
(* the fields of an object and of a map are a function, arrays and lists   *)
(* are sequences.  Texts are a few words that tell apart what the code and *)
(* DynamoDB tell apart.                                                    *)
(*                                                                         *)
(* The conversions recurse over the parts of a value.  Each is a function  *)
(* on the values there are, written as what it makes of a value once it is *)
(* known what it makes of the parts.  No value is deeper than MaxDepth:    *)
(* serde_json parses 128 levels and DynamoDB stores 32.                    *)
(***************************************************************************)
EXTENDS Naturals, Sequences, Functions

CONSTANTS
    Json,         \* the JSON values there are: all that follow, and their parts
    Av,           \* the attribute values there are
    Depth,        \* how deep each of them is nested
    MaxDepth,     \* no deeper than this
    Documents,    \* the items clients send, in DynamoDB-JSON
    ForeignItems  \* the items other programs write, as attribute values

VARIABLES
    given,   \* the document being sent
    sent,    \* the item that was made of it; Nothing if it was refused
    stored,  \* the item in the table
    answer,  \* the document the client read last
    phase    \* where the client is

marshalVars == <<given, sent, stored, answer, phase>>

Nothing == <<"none">>

-----------------------------------------------------------------------------
(* Texts                                                                   *)

\* What Rust parses as an f64, and what DynamoDB takes for a number.
FloatTexts  ==
    {"1", "1.0", "9007199254740992", "9007199254740993", "NaN", "1e200"}
NumberTexts == FloatTexts \ {"NaN", "1e200"}

\* Base64 with its padding, and the bytes it stands for.
Bytes == [x \in {"AA==", "AQ=="} |-> IF x = "AA==" THEN "zero" ELSE "one"]

\* What DynamoDB makes of a number, and what an f64 would.
Normal(text)  == IF text = "1.0" THEN "1" ELSE text
Rounded(text) == IF text = "9007199254740993" THEN "9007199254740992" ELSE text

\* The type of the elements of a set type, and of a scalar: itself.
ElementTag ==
    [S |-> "S", N |-> "N", B |-> "B", SS |-> "S", NS |-> "N", BS |-> "B"]

\* Variant: a number is one that an i32 holds.
AdmitsInt32(tag, text) ==
    /\ tag = "N" => text = "1"
    /\ tag = "B" => text \in DOMAIN Bytes

\* Whether a text is one for S, N or B.
Admits(tag, text) ==
    /\ tag = "N" => text \in FloatTexts
    /\ tag = "B" => text \in DOMAIN Bytes

\* Variant: numbers go through an f64.
DecodedAsFloat(tag, text) ==
    IF tag = "B" THEN Bytes[text] ELSE IF tag = "N" THEN Rounded(text) ELSE text

\* The content an attribute value has of a text, and the text it is shown as.
Decoded(tag, text) == IF tag = "B" THEN Bytes[text] ELSE text

Encoded(tag, content) ==
    IF tag = "B" THEN CHOOSE x \in DOMAIN Bytes : Bytes[x] = content ELSE content

-----------------------------------------------------------------------------
(* json_to_av, av_to_json                                                  *)

\* The JSON type that goes with each tag.
Shape ==
    [S |-> "string", N |-> "string", B |-> "string", BOOL |-> "bool",
     NULL |-> "bool", SS |-> "array", NS |-> "array", BS |-> "array",
     M |-> "object", L |-> "array"]

\* An object with one key, known as a tag, over a value of the tag's JSON type.
TaggedBy(tag, json) ==
    json[1] = "object" /\ DOMAIN json[2] = {tag} /\ json[2][tag][1] = Shape[tag]

Each(to, parts) == [i \in DOMAIN parts |-> to[parts[i]]]

\* The first part that does not convert fails the whole.
Whole(tag, parts) ==
    IF \E i \in DOMAIN parts : parts[i] = Nothing THEN Nothing ELSE <<tag, parts>>

\* The strings of a set type: each one text, and one that the type admits.
TextsOk(tag, array) ==
    \A i \in DOMAIN array :
        array[i][1] = "string" /\ Admits(ElementTag[tag], array[i][2])

AvOfTagged(tag, content, to) ==
    CASE tag \in {"BOOL", "NULL"} -> <<tag, content>>
      [] tag \in {"S", "N", "B"} ->
           IF Admits(tag, content) THEN <<tag, Decoded(tag, content)>> ELSE Nothing
      [] tag \in {"SS", "NS", "BS"} ->
           IF TextsOk(tag, content)
           THEN <<tag, [i \in DOMAIN content |->
                           Decoded(ElementTag[tag], content[i][2])]>>
           ELSE Nothing
      [] tag \in {"M", "L"} -> Whole(tag, Each(to, content))

\* json_to_av, and Nothing where it returns a MarshalError.
AvOf(json, to) ==
    IF \E tag \in DOMAIN Shape : TaggedBy(tag, json)
    THEN LET tag == CHOOSE t \in DOMAIN Shape : TaggedBy(t, json)
         IN AvOfTagged(tag, json[2][tag][2], to)
    ELSE Nothing

JsonToAv[json \in Json] == AvOf(json, JsonToAv)

\* json_to_item: an object, every field of which converts.
JsonToItem(json) ==
    IF json[1] = "object" THEN Whole("item", Each(JsonToAv, json[2])) ELSE Nothing

Single(tag, value) == <<"object", [t \in {tag} |-> value]>>

\* Variant: NULL is shown as true, whatever its flag.
NullShownTrue(content) == <<"bool", TRUE>>

\* NULL keeps its flag, though DynamoDB knows no NULL but true.
NullFlag(content) == <<"bool", content>>

\* av_to_json: a type the SDK does not know becomes NULL.
JsonOf(av, to) ==
    LET tag == av[1] content == av[2] IN
    CASE tag = "BOOL" -> Single(tag, <<"bool", content>>)
      [] tag = "NULL" -> Single(tag, NullFlag(content))
      [] tag \in {"S", "N", "B"} ->
           Single(tag, <<"string", Encoded(tag, content)>>)
      [] tag \in {"SS", "NS", "BS"} ->
           Single(tag, <<"array", [i \in DOMAIN content |->
                            <<"string", Encoded(ElementTag[tag], content[i])>>]>>)
      [] tag = "M" -> Single(tag, <<"object", Each(to, content)>>)
      [] tag = "L" -> Single(tag, <<"array", Each(to, content)>>)
      [] tag \notin DOMAIN Shape -> Single("NULL", <<"bool", TRUE>>)

AvToJson[av \in Av] == JsonOf(av, AvToJson)

ItemToJson(item) == <<"object", Each(AvToJson, item[2])>>

-----------------------------------------------------------------------------
(* What DynamoDB stores, and what the SDK knows                            *)

\* No two texts of one number.
Distinct(texts) ==
    \A i, j \in DOMAIN texts : Normal(texts[i]) = Normal(texts[j]) => i = j

\* DynamoDB stores numbers in a normal form, and takes no NULL but true, no set
\* that is empty or has a value twice, and no number that is none of its own.
StoredOf(av, to) ==
    LET tag == av[1] content == av[2] IN
    CASE tag = "NULL" -> IF content = TRUE THEN av ELSE Nothing
      [] tag = "N" ->
           IF content \in NumberTexts THEN <<tag, Normal(content)>> ELSE Nothing
      [] tag = "NS" ->
           IF /\ DOMAIN content # {} /\ Distinct(content)
              /\ Range(content) \subseteq NumberTexts
           THEN <<tag, [i \in DOMAIN content |-> Normal(content[i])]>>
           ELSE Nothing
      [] tag \in {"SS", "BS"} ->
           IF DOMAIN content # {} /\ IsInjective(content) THEN av ELSE Nothing
      [] tag \in {"M", "L"} -> Whole(tag, Each(to, content))
      [] OTHER -> av

AsStored[av \in Av] == StoredOf(av, AsStored)

ItemAsStored(item) == Whole("item", Each(AsStored, item[2]))

\* A value without a type that is newer than the SDK.
KnownIf(av, known) ==
    /\ av[1] \in DOMAIN Shape
    /\ av[1] \in {"M", "L"} => \A i \in DOMAIN av[2] : known[av[2][i]]

Known[av \in Av] == KnownIf(av, Known)

AllKnown(item) == \A name \in DOMAIN item[2] : Known[item[2][name]]

-----------------------------------------------------------------------------
(* The values there are                                                    *)

\* The parts of a value are there too, and less deep.
HasParts(v, S) ==
    /\ v[2] = [i \in DOMAIN v[2] |-> v[2][i]]
    /\ \A i \in DOMAIN v[2] : v[2][i] \in S /\ Depth[v[2][i]] < Depth[v]

ASSUME JsonAssumption ==
    \A json \in Json :
        /\ json = <<json[1], json[2]>>
        /\ Depth[json] \in 0 .. MaxDepth
        /\ json[1] \in {"object", "array"} => HasParts(json, Json)

ASSUME AvAssumption ==
    \A av \in Av :
        /\ av = <<av[1], av[2]>> /\ av # Nothing
        /\ Depth[av] \in 0 .. MaxDepth
        /\ av[1] \in {"M", "L"} => HasParts(av, Av)
        /\ av[1] \in {"SS", "NS", "BS"} => av[2] = [i \in DOMAIN av[2] |-> av[2][i]]
        /\ av[1] = "B" => av[2] \in Range(Bytes)
        /\ av[1] = "BS" => Range(av[2]) \subseteq Range(Bytes)
        /\ av[1] = "NULL" => av[2] \in BOOLEAN

ASSUME DepthAssumption == MaxDepth \in Nat

\* What is made of a value that is there is there.
ASSUME ClosureAssumption ==
    /\ \A json \in Json : JsonToAv[json] \in Av \cup {Nothing}
    /\ \A av \in Av : AvToJson[av] \in Json /\ AsStored[av] \in Av \cup {Nothing}

\* A document, the fields of which are there.
IsDocument(json) ==
    /\ json = <<json[1], json[2]>>
    /\ json[1] = "object" => /\ json[2] = [n \in DOMAIN json[2] |-> json[2][n]]
                             /\ \A n \in DOMAIN json[2] : json[2][n] \in Json

\* An item as DynamoDB has it.
InTable(item) ==
    /\ item[2] = [n \in DOMAIN item[2] |-> item[2][n]]
    /\ \A n \in DOMAIN item[2] : item[2][n] \in Av
    /\ ItemAsStored(item) = item

ASSUME DocumentAssumption == \A document \in Documents : IsDocument(document)
ASSUME ForeignAssumption  == \A item \in ForeignItems : InTable(item)

-----------------------------------------------------------------------------
(* The client and the table                                                *)

MarshalInit ==
    /\ given = Nothing /\ sent = Nothing /\ stored = Nothing /\ answer = Nothing
    /\ phase = "idle"

\* A client sends a document of its own, or what it read.
Give ==
    /\ phase = "idle"
    /\ given' \in Documents \cup ({answer} \ {Nothing})
    /\ answer' = Nothing
    /\ phase' = "given"
    /\ UNCHANGED <<sent, stored>>

\* marshal_item: a tool error if the document does not convert.
MarshalItem ==
    /\ phase = "given"
    /\ sent' = JsonToItem(given)
    /\ phase' = IF sent' = Nothing THEN "refused" ELSE "sent"
    /\ UNCHANGED <<given, stored, answer>>

Store ==
    /\ phase = "sent"
    /\ stored' = ItemAsStored(sent) /\ stored' # Nothing
    /\ given' = Nothing /\ sent' = Nothing
    /\ phase' = "idle"
    /\ UNCHANGED answer

\* DynamoDB answers with a validation error, which is a transport failure here.
Reject ==
    /\ phase = "sent" /\ ItemAsStored(sent) = Nothing
    /\ phase' = "refused"
    /\ UNCHANGED <<given, sent, stored, answer>>

Retract ==
    /\ phase = "refused"
    /\ given' = Nothing /\ sent' = Nothing
    /\ phase' = "idle"
    /\ UNCHANGED <<stored, answer>>

\* Another program writes the item.
Overwrite ==
    /\ stored' \in ForeignItems
    /\ UNCHANGED <<given, sent, answer, phase>>

\* get_item: the client reads the item.
Read ==
    /\ phase = "idle" /\ stored # Nothing
    /\ answer' = ItemToJson(stored)
    /\ UNCHANGED <<given, sent, stored, phase>>

MarshalNext ==
    Give \/ MarshalItem \/ Store \/ Reject \/ Retract \/ Overwrite \/ Read

MarshalSpec == MarshalInit /\ [][MarshalNext]_marshalVars

-----------------------------------------------------------------------------

\* Nothing is lost on the way in: what was made of a document shows as that
\* document again, every type, flag and digit of it (marshal.rs calls itself
\* lossless).
Lossless == phase = "sent" => ItemToJson(sent) = given

\* Writing back what was read changes nothing in the table, unless the item has
\* a type the SDK does not know: that one comes back as NULL, and a client that
\* writes the item back loses it.
EchoChangesNothing ==
    [][ /\ Store /\ stored # Nothing /\ AllKnown(stored)
        /\ given = ItemToJson(stored)
        => stored' = stored ]_marshalVars

\* An item that DynamoDB would store is never kept from it: if the table holds
\* it, its document is sent, and refused by neither side.
EchoIsAccepted ==
    phase = "refused" /\ stored # Nothing => given # ItemToJson(stored)

-----------------------------------------------------------------------------

\* What makes them inductive: what is sent or refused is what the document
\* converts to, and what is stored stays as it is when it is stored again.
MarshalInv ==
    /\ stored # Nothing => InTable(stored)
    /\ answer # Nothing => IsDocument(answer)
    /\ phase # "idle" => IsDocument(given)
    /\ phase = "sent" => sent = JsonToItem(given) /\ sent # Nothing
    /\ phase = "refused" =>
         \/ JsonToItem(given) = Nothing
         \/ ItemAsStored(JsonToItem(given)) = Nothing
=============================================================================
