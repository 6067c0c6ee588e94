----------------------------- MODULE Relisting -----------------------------
(***************************************************************************)
(* A client lists a resource binding to its end while the name is          *)
(* registered again, for another table, with another page size, or without *)
(* a list_query.  list_resources reads the registry once per page and      *)
(* knows nothing of the walk: all it is given is the cursor, which may be  *)
(* one of another table or no cursor at all.  Listing looks inside the     *)
(* pages of one binding; here a page is one step.                          *)
(*                                                                         *)
(* A cursor is the primary key that it encodes, that is a key and the      *)
(* schema whose attributes it has, or Garbled for what does not decode.    *)
(***************************************************************************)
EXTENDS Naturals, FiniteSets

CONSTANTS
    Keys,      \* keys there are
    Table,
    Room,      \* the keys each table has room for
    SchemaOf,  \* the key schema of each table
    Place,     \* where each table has each key in the order of its Scans
    Bindings,  \* what the name may be registered with
    None, Garbled

Key == 1 .. Keys

ASSUME RelistingAssumption ==
    /\ Keys \in Nat
    /\ DOMAIN SchemaOf = Table
    /\ Room \in [Table -> SUBSET Key]
    /\ Place \in [Table -> [Key -> Nat]]
    /\ \A t \in Table : \A j, k \in Key : Place[t][j] = Place[t][k] => j = k
    /\ \A b \in Bindings : b.table \in Table /\ b.lists \in BOOLEAN /\ b.page \in Nat \ {0}
    /\ None \notin Bindings /\ None # Garbled
    /\ {None, Garbled} \cap [schema : {SchemaOf[t] : t \in Table}, key : Key] = {}

Cursors == [schema : {SchemaOf[t] : t \in Table}, key : Key] \cup {None, Garbled}

VARIABLES
    profile,   \* what the name is registered with; None before it is
    contents,  \* the keys of the items in each table
    pc,        \* the client: "ready", "asking" for a page, "finished"
    cursor,    \* what it will ask with
    using,     \* the binding that serves the page it asked for
    listed,    \* how often each key of each table was delivered in this walk;
               \* 2 stands for more
    sources,   \* the tables that pages of this walk were read from
    cut,       \* the walk was ended by a binding that lists nothing
    stable     \* keys that each table had all through this walk

walk == <<pc, cursor, using, listed, sources, cut>>

vars == <<profile, contents, pc, cursor, using, listed, sources, cut, stable>>

TypeOK ==
    /\ profile \in Bindings \cup {None}
    /\ contents \in [Table -> SUBSET Key]
    /\ \A t \in Table : contents[t] \subseteq Room[t]
    /\ pc \in {"ready", "asking", "finished"}
    /\ cursor \in Cursors
    /\ using \in Bindings \cup {None}
    /\ listed \in [Table -> [Key -> 0 .. 2]]
    /\ sources \subseteq Table
    /\ cut \in BOOLEAN
    /\ stable \in [Table -> SUBSET Key]
    /\ \A t \in Table : stable[t] \subseteq contents[t]

nothingListed == [t \in Table |-> [k \in Key |-> 0]]

Init ==
    /\ profile = None
    /\ contents \in {c \in [Table -> SUBSET Key] : \A t \in Table : c[t] \subseteq Room[t]}
    /\ pc = "ready" /\ cursor = None /\ using = None
    /\ listed = nothingListed /\ sources = {} /\ cut = FALSE
    /\ stable = contents

-----------------------------------------------------------------------------
(* The registry and the tables                                             *)

\* register_profile inserts a binding under the name.
Register(b) ==
    /\ profile' = b
    /\ UNCHANGED <<contents, stable>> /\ UNCHANGED walk

PutItem(t, k) ==
    /\ contents' = [contents EXCEPT ![t] = @ \cup {k}]
    /\ UNCHANGED <<profile, stable>> /\ UNCHANGED walk

DeleteItem(t, k) ==
    /\ contents' = [contents EXCEPT ![t] = @ \ {k}]
    /\ stable' = [stable EXCEPT ![t] = @ \ {k}]
    /\ UNCHANGED profile /\ UNCHANGED walk

-----------------------------------------------------------------------------
(* list_resources                                                          *)

\* Variant: a cursor that does not decode is taken for none.
DecodesLeniently(c) == TRUE

\* decode_cursor: base64, JSON and DynamoDB-JSON, else InvalidSpec.
Decodes(c) == c # Garbled

\* A binding without a list_query has the empty page, whatever the cursor.
EmptyPage ==
    /\ pc = "ready"
    /\ profile # None /\ ~profile.lists
    /\ pc' = "finished" /\ cursor' = None /\ cut' = TRUE
    /\ UNCHANGED <<profile, contents, using, listed, sources, stable>>

\* The binding is read and the request is sent. Before the name is registered
\* the answer is ProfileNotFound, and for a cursor that does not decode it is
\* InvalidSpec; neither changes anything.
AskPage ==
    /\ pc = "ready"
    /\ profile # None /\ profile.lists
    /\ Decodes(cursor)
    /\ pc' = "asking" /\ using' = profile
    /\ UNCHANGED <<profile, contents, cursor, listed, sources, cut, stable>>

\* Variant: attributes that are not of the table's key are left out.
StartKeyStripped(c, t) ==
    IF c \notin {None, Garbled} /\ c.schema # SchemaOf[t] THEN None ELSE c

\* The request starts after the decoded cursor, whatever it is.
StartKey(c, t) == c

\* DynamoDB wants the attributes of the table's own key as the start key.
Fits(c, t) == c \notin {None, Garbled} => c.schema = SchemaOf[t]

Follows(t, k, c) ==
    c \notin {None, Garbled} /\ c.schema = SchemaOf[t] => Place[t][k] > Place[t][c.key]

\* The cursor of the last key of a page.
IsCursorOf(c, t, taken) ==
    \E last \in taken :
        /\ \A j \in taken : Place[t][j] <= Place[t][last]
        /\ c = [schema |-> SchemaOf[t], key |-> last]

\* Variant: a page that is not full is taken for the last.
NextCursorIfFull(c, t, taken, rest) ==
    IF Cardinality(taken) < using.page THEN c = None ELSE IsCursorOf(c, t, taken)

\* last_evaluated_key: none when the table's end was met below the limit.
NextCursor(c, t, taken, rest) ==
    IF taken = rest /\ Cardinality(taken) < using.page THEN c = None
    ELSE IsCursorOf(c, t, taken)

\* A page: the next items in the table's order, up to the limit, or fewer when
\* they are large.
ServePage ==
    LET t == using.table
        from == StartKey(cursor, t)
        rest == {k \in contents[t] : Follows(t, k, from)}
    IN
    /\ pc = "asking" /\ Fits(from, t)
    /\ \E taken \in SUBSET rest :
        /\ Cardinality(taken) <= using.page
        /\ taken = {} => rest = {}
        /\ \A j \in rest, k \in taken : Place[t][j] < Place[t][k] => j \in taken
        /\ listed' = [listed EXCEPT ![t] =
                        [k \in Key |-> IF k \notin taken THEN listed[t][k]
                                   ELSE IF listed[t][k] = 0 THEN 1 ELSE 2]]
        /\ NextCursor(cursor', t, taken, rest)
    /\ pc' = IF cursor' = None THEN "finished" ELSE "ready"
    /\ using' = None
    /\ sources' = sources \cup {t}
    /\ UNCHANGED <<profile, contents, cut, stable>>

\* Refused for its start key, timed out or failed: the client keeps its cursor.
PageFails ==
    /\ pc = "asking"
    /\ pc' = "ready" /\ using' = None
    /\ UNCHANGED <<profile, contents, cursor, listed, sources, cut, stable>>

-----------------------------------------------------------------------------
(* The client                                                              *)

\* What it asks with is not what it was given.
Corrupt ==
    /\ pc = "ready" /\ cursor \notin {None, Garbled}
    /\ cursor' = Garbled
    /\ UNCHANGED <<profile, contents, pc, using, listed, sources, cut, stable>>

\* It begins again.
Restart ==
    /\ pc # "asking"
    /\ pc' = "ready" /\ cursor' = None
    /\ listed' = nothingListed /\ sources' = {} /\ cut' = FALSE
    /\ stable' = contents
    /\ UNCHANGED <<profile, contents, using>>

Next ==
    \/ \E b \in Bindings : Register(b)
    \/ \E t \in Table : \E k \in Room[t] : PutItem(t, k) \/ DeleteItem(t, k)
    \/ EmptyPage \/ AskPage \/ ServePage \/ PageFails
    \/ Corrupt \/ Restart

Spec == Init /\ [][Next]_vars

-----------------------------------------------------------------------------

\* A walk whose pages came from one table delivers nothing twice, though the
\* binding was replaced between pages or during one, pages failed, and the
\* client asked with cursors that are none.
OnceFromOneTable ==
    \A t \in Table : sources = {t} => \A k \in Key : listed[t][k] <= 1

\* If such a walk comes to its end, it has everything that was in that table
\* all the time. A binding without a list_query ends it early.
CompleteFromOneTable ==
    \A t \in Table :
        pc = "finished" /\ ~cut /\ sources = {t} =>
            \A k \in stable[t] : listed[t][k] = 1

\* Tables with different key schemas never end up in one listing: the cursor of
\* the one is refused by the other. (With equal schemas they can: the walk goes
\* on in the new table at the old one's key.)
SchemasNeverMix == \A t, u \in sources : SchemaOf[t] = SchemaOf[u]

\* What a cursor stands for: it is of the schema of every table the walk read;
\* in a walk of one table nothing after it was delivered, and everything stable
\* up to it was. At the start there is none.
PositionInv ==
    /\ sources = {} => listed = nothingListed
    /\ pc # "finished" => (cursor = None <=> sources = {})
    /\ \A t \in sources : cursor \notin {None, Garbled} => cursor.schema = SchemaOf[t]
    /\ \A t \in Table : sources = {t} /\ cursor \notin {None, Garbled} =>
         /\ \A k \in Key : listed[t][k] = 0 \/ ~Follows(t, k, cursor)
         /\ \A k \in stable[t] : listed[t][k] = 1 \/ Follows(t, k, cursor)

\* Why these hold, from page to page.
RelistingInv ==
    /\ TypeOK
    /\ PositionInv
    /\ pc = "asking" => using # None /\ cursor # Garbled
    /\ pc = "finished" => cursor = None
    /\ OnceFromOneTable
    /\ CompleteFromOneTable
    /\ SchemasNeverMix

=============================================================================
