----------------------------- MODULE MCMarshal -----------------------------
(* Documents of every type, well formed or not, up to two levels deep.  The *)
(* values there are take in what the documents and items convert to.        *)
EXTENDS Marshal

text(x)  == <<"string", x>>
array(x) == <<"array", x>>
flag(x)  == <<"bool", x>>
field(n, v) == <<"object", [m \in {n} |-> v]>>

Texts == {"a word", "1", "1.0", "9007199254740992", "9007199254740993", "NaN",
          "1e200", "AA==", "AQ=="}

\* Every tag over every kind of content, right or wrong for it.
Contents ==
    {text(x) : x \in Texts} \cup {flag(TRUE), flag(FALSE), array(<<>>)}
      \cup {array(<<text("1"), text(x)>>) : x \in Texts}
      \cup {array(<<text("AA=="), text("AQ==")>>), array(<<flag(TRUE)>>)}

Leaves == {Single(tag, c) : tag \in (DOMAIN Shape \ {"M", "L"}) \cup {"X"}, c \in Contents}

two == <<"object", [t \in {"S", "N"} |-> text("1")]>>

\* What nested values are made of: right leaves, some wrong or strange ones.
Right == {Single("S", text("a word")), Single("N", text("1")), Single("N", text("1.0")),
          Single("NULL", flag(FALSE)), Single("NULL", flag(TRUE)),
          Single("B", text("AA==")), Single("B", text("AQ==")), Single("BOOL", flag(FALSE))}

Parts == {Single("S", text("a word")), Single("N", text("1.0")),
          Single("NULL", flag(FALSE)), Single("B", text("AA==")),
          Single("N", text("a word")), two}

Lists(S) == {Single("L", array(<<p, q>>)) : p, q \in S} \cup {Single("L", array(<<p>>)) : p \in S}

Maps(S) == {Single("M", field(n, p)) : n \in {"a", "b"}, p \in S}

MCDocuments ==
    {field("a", v) : v \in Leaves \cup Lists(Parts) \cup Maps(Parts \cup Lists(Parts))}
      \cup {two, text("1")}

\* Items of other programs: exact numbers, a set, a new type, also nested.
new == <<"NEW", "something">>

MCForeignItems ==
    {<<"item", [n \in {"a"} |-> v]>> :
        v \in {<<"N", "9007199254740993">>, <<"NS", <<"1", "9007199254740993">>>>,
               <<"BS", <<"zero", "one">>>>, <<"NULL", TRUE>>, new, <<"L", <<new>>>>,
               <<"M", [n \in {"b"} |-> <<"L", <<<<"B", "one">>, <<"BOOL", FALSE>>>>>>]>>}}

-----------------------------------------------------------------------------
(* The values there are                                                     *)


\* A value and what is nested in it.
RECURSIVE WithParts(_), Nesting(_)
Nested(v) ==
    IF v[1] \in {"object", "array", "M", "L"} THEN Range(v[2]) ELSE {}
WithParts(v) == {v} \cup UNION {WithParts(w) : w \in Nested(v)}
Nesting(v) ==
    LET depths == {Nesting(w) : w \in Nested(v)}
    IN IF depths = {} THEN 0 ELSE 1 + CHOOSE d \in depths : \A e \in depths : e <= d

\* The same set, member by member.
Enumerated(S) == {v \in S : TRUE}

MCJson ==
    LET inner == Parts \cup Right
        lists == Lists(inner)
    IN Enumerated(UNION {WithParts(v) :
                            v \in Leaves \cup Right \cup lists \cup Maps(inner \cup lists)})

AvLeaves ==
    {<<tag, x>> : tag \in {"S", "N"}, x \in Texts}
      \cup {<<"B", x>> : x \in Range(Bytes)}
      \cup {<<tag, x>> : tag \in {"BOOL", "NULL"}, x \in BOOLEAN}
      \cup {<<tag, <<"1", x>>>> : tag \in {"SS", "NS"}, x \in Texts}
      \cup {<<tag, <<>>>> : tag \in {"SS", "NS", "BS"}}
      \cup {<<"SS", <<"AA==", "AQ==">>>>, <<"BS", <<"zero", "one">>>>, new}

AvParts == {<<"S", "a word">>, <<"N", "1">>, <<"N", "1.0">>, <<"NULL", FALSE>>,
            <<"NULL", TRUE>>, <<"B", "zero">>, <<"B", "one">>, <<"BOOL", FALSE>>, new}

AvLists == {<<"L", <<p, q>>>> : p, q \in AvParts} \cup {<<"L", <<p>>>> : p \in AvParts}

MCAv ==
    Enumerated(AvLeaves \cup AvLists
                 \cup {<<"M", [m \in {n} |-> p]>> :
                          n \in {"a", "b"}, p \in AvParts \cup AvLists})

MCDepth == [v \in Enumerated(MCJson \cup MCAv) |-> Nesting(v)]
=============================================================================
