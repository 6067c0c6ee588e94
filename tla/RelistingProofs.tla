--------------------------- MODULE RelistingProofs ---------------------------
(***************************************************************************)
(* Proofs about Relisting, for all tables, orders, schemas and bindings.   *)
(***************************************************************************)
EXTENDS Relisting, TLAPS

LEMMA RelistingInvInit ==
    ASSUME Init PROVE RelistingInv
PROOF
<1> USE RelistingAssumption
<1>1. TypeOK
  <2>1. contents \in [Table -> SUBSET Key] /\ stable = contents
    BY DEF Init
  <2>2. listed \in [Table -> [Key -> 0 .. 2]]
    BY DEF Init, nothingListed
  <2>3. \A t \in Table : contents[t] \subseteq Room[t]
    BY DEF Init
  <2> QED BY <2>1, <2>2, <2>3 DEF Init, TypeOK, Cursors
<1>2. PositionInv
  BY DEF Init, PositionInv
<1>3. OnceFromOneTable /\ CompleteFromOneTable /\ SchemasNeverMix
  BY DEF Init, OnceFromOneTable, CompleteFromOneTable, SchemasNeverMix
<1> QED BY <1>1, <1>2, <1>3 DEF Init, RelistingInv

LEMMA TablesInv ==
    ASSUME RelistingInv, NEW t \in Table, NEW k \in Room[t],
           PutItem(t, k) \/ DeleteItem(t, k)
    PROVE  RelistingInv'
PROOF
<1> USE DEF walk
<1>1. UNCHANGED <<profile, pc, cursor, using, listed, sources, cut>>
  BY DEF PutItem, DeleteItem
<1>2. k \in Key
  BY RelistingAssumption
<1>3. /\ contents' \in [Table -> SUBSET Key] /\ stable' \in [Table -> SUBSET Key]
      /\ \A u \in Table : contents'[u] \subseteq Room[u]
      /\ \A u \in Table : stable'[u] \subseteq stable[u]
      /\ \A u \in Table : stable'[u] \subseteq contents'[u]
  <2>1. /\ contents \in [Table -> SUBSET Key] /\ stable \in [Table -> SUBSET Key]
        /\ \A u \in Table : stable[u] \subseteq contents[u] /\ contents[u] \subseteq Room[u]
    BY RelistingAssumption DEF RelistingInv, TypeOK
  <2>2. CASE PutItem(t, k)
    <3>1. contents' = [contents EXCEPT ![t] = contents[t] \cup {k}] /\ stable' = stable
      BY <2>2 DEF PutItem
    <3> QED BY <1>2, <2>1, <3>1
  <2>3. CASE DeleteItem(t, k)
    <3>1. /\ contents' = [contents EXCEPT ![t] = contents[t] \ {k}]
          /\ stable' = [stable EXCEPT ![t] = stable[t] \ {k}]
      BY <2>3 DEF DeleteItem
    <3> QED BY <1>2, <2>1, <3>1
  <2> QED BY <2>2, <2>3
<1>4. TypeOK'
  BY <1>1, <1>3 DEF RelistingInv, TypeOK
<1>5. PositionInv'
  BY <1>1, <1>3 DEF RelistingInv, PositionInv, Follows
<1>6. OnceFromOneTable' /\ CompleteFromOneTable' /\ SchemasNeverMix'
  BY <1>1, <1>3 DEF RelistingInv, OnceFromOneTable, CompleteFromOneTable, SchemasNeverMix
<1> QED BY <1>1, <1>4, <1>5, <1>6 DEF RelistingInv

\* What ServePage says of the keys a page takes from table t.
TakesPage(t, taken) ==
    LET rest == {k \in contents[t] : Follows(t, k, cursor)} IN
    /\ taken \subseteq rest
    /\ \A j \in rest, k \in taken : Place[t][j] < Place[t][k] => j \in taken
    /\ listed' = [listed EXCEPT ![t] =
                    [k \in Key |-> IF k \notin taken THEN listed[t][k]
                               ELSE IF listed[t][k] = 0 THEN 1 ELSE 2]]
    /\ NextCursor(cursor', t, taken, rest)

\* A page of a table that the walk may have read before: what was delivered then
\* lies before the page, and the page leaves out nothing stable.
LEMMA PageFacts ==
    ASSUME RelistingInv, pc = "asking", NEW t \in Table, sources \subseteq {t},
           NEW taken, TakesPage(t, taken)
    PROVE  /\ \A k \in Key : listed'[t][k] <= 1
           /\ cursor' = None => \A k \in stable[t] : listed'[t][k] = 1
           /\ cursor' # None =>
                /\ \A k \in Key : listed'[t][k] = 0 \/ ~Follows(t, k, cursor')
                /\ \A k \in stable[t] : listed'[t][k] = 1 \/ Follows(t, k, cursor')
PROOF
<1> DEFINE rest == {k \in contents[t] : Follows(t, k, cursor)}
<1>0. /\ taken \subseteq rest
      /\ \A j \in rest, k \in taken : Place[t][j] < Place[t][k] => j \in taken
      /\ listed' = [listed EXCEPT ![t] =
                    [k \in Key |-> IF k \notin taken THEN listed[t][k]
                               ELSE IF listed[t][k] = 0 THEN 1 ELSE 2]]
      /\ NextCursor(cursor', t, taken, rest)
  BY DEF TakesPage
<1>1. /\ listed \in [Table -> [Key -> 0 .. 2]] /\ Place[t] \in [Key -> Nat]
      /\ contents[t] \subseteq Key /\ stable[t] \subseteq contents[t]
      /\ cursor \in Cursors /\ cursor # Garbled
  BY RelistingAssumption DEF RelistingInv, TypeOK
<1>2. taken \subseteq rest /\ rest \subseteq Key
  BY <1>0, <1>1
<1>3. \A k \in Key : /\ listed[t][k] \in 0 .. 2
                     /\ k \notin taken => listed'[t][k] = listed[t][k]
                     /\ k \in taken /\ listed[t][k] = 0 => listed'[t][k] = 1
  BY <1>0, <1>1
<1>4. \A k \in Key : k \in taken => listed[t][k] = 0
  <2>1. CASE sources = {}
    BY <1>1, <2>1 DEF RelistingInv, PositionInv, nothingListed
  <2>2. CASE sources = {t}
    <3>1. cursor # None
      BY <2>2 DEF RelistingInv, PositionInv
    <3> QED BY <1>1, <1>2, <2>2, <3>1 DEF RelistingInv, PositionInv
  <2> QED BY <2>1, <2>2
<1>5. \A k \in Key : listed[t][k] <= 1
  <2>1. CASE sources = {}
    BY <1>1, <2>1 DEF RelistingInv, PositionInv, nothingListed
  <2>2. CASE sources = {t}
    BY <2>2 DEF RelistingInv, OnceFromOneTable
  <2> QED BY <2>1, <2>2
<1>6. \A k \in stable[t] : k \in rest \/ listed[t][k] = 1
  <2>1. CASE sources = {}
    <3>1. cursor = None
      BY <2>1 DEF RelistingInv, PositionInv
    <3> QED BY <1>1, <3>1 DEF Follows
  <2>2. CASE sources = {t}
    <3>1. cursor # None
      BY <2>2 DEF RelistingInv, PositionInv
    <3> QED BY <1>1, <2>2, <3>1 DEF RelistingInv, PositionInv
  <2> QED BY <2>1, <2>2
<1>7. \A k \in stable[t] : k \in taken => listed'[t][k] = 1
  BY <1>1, <1>3, <1>4
<1>8. \A k \in stable[t] : k \notin rest => listed'[t][k] = 1
  BY <1>1, <1>2, <1>3, <1>6
<1>9. \A k \in Key : listed'[t][k] <= 1
  BY <1>3, <1>4, <1>5
<1>10. CASE taken = rest /\ cursor' = None
  BY <1>7, <1>8, <1>9, <1>10
<1>11. CASE IsCursorOf(cursor', t, taken)
  <2>1. PICK last \in taken :
          /\ \A j \in taken : Place[t][j] <= Place[t][last]
          /\ cursor' = [schema |-> SchemaOf[t], key |-> last]
    BY <1>11 DEF IsCursorOf
  <2>2. /\ cursor' \in Cursors \ {None, Garbled}
        /\ cursor'.schema = SchemaOf[t] /\ cursor'.key = last
    BY <1>2, <2>1, RelistingAssumption DEF Cursors
  <2>3. ASSUME cursor' # None, NEW k \in Key
        PROVE  listed'[t][k] = 0 \/ ~Follows(t, k, cursor')
    <3>1. CASE k \in taken
      <4>1. Place[t][k] <= Place[t][last] /\ Place[t][k] \in Nat /\ Place[t][last] \in Nat
        BY <1>1, <1>2, <2>1, <3>1
      <4> QED BY <2>2, <4>1 DEF Follows
    <3>2. CASE k \notin taken
      <4>1. listed'[t][k] = listed[t][k]
        BY <1>3, <3>2
      <4>2. CASE sources = {}
        BY <4>1, <4>2 DEF RelistingInv, PositionInv, nothingListed
      <4>3. CASE sources = {t} /\ listed[t][k] # 0
        <5>1. cursor # None /\ ~Follows(t, k, cursor) /\ Follows(t, last, cursor)
          BY <1>1, <1>2, <2>1, <4>3 DEF RelistingInv, PositionInv
        <5>2. Place[t][last] > Place[t][cursor.key] /\ ~(Place[t][k] > Place[t][cursor.key])
          <6>1. cursor.schema = SchemaOf[t] /\ cursor \notin {None, Garbled}
            BY <1>1, <5>1 DEF Follows
          <6> QED BY <5>1, <6>1 DEF Follows
        <5>3. cursor.key \in Key /\ Place[t][k] \in Nat /\ Place[t][last] \in Nat
              /\ Place[t][cursor.key] \in Nat
          BY <1>1, <1>2, <2>1, <5>1 DEF Cursors
        <5>4. ~(Place[t][k] > Place[t][last])
          BY <5>2, <5>3
        <5> QED BY <2>2, <5>4 DEF Follows
      <4> QED BY <4>1, <4>2, <4>3
    <3> QED BY <3>1, <3>2
  <2>4. ASSUME cursor' # None, NEW k \in stable[t]
        PROVE  listed'[t][k] = 1 \/ Follows(t, k, cursor')
    <3>1. CASE k \in taken \/ k \notin rest
      BY <1>7, <1>8, <3>1
    <3>2. CASE k \in rest \ taken
      <4>1. Place[t][k] \in Nat /\ Place[t][last] \in Nat /\ k \in Key /\ last \in Key
        BY <1>1, <1>2, <2>1
      <4>2. ~(Place[t][k] < Place[t][last]) /\ Place[t][k] # Place[t][last]
        BY <1>0, <1>1, <1>2, <2>1, <3>2, <4>1, RelistingAssumption
      <4>3. Place[t][k] > Place[t][last]
        BY <4>1, <4>2
      <4> QED BY <2>2, <4>3 DEF Follows
    <3> QED BY <3>1, <3>2
  <2> QED BY <1>9, <2>2, <2>3, <2>4
<1> QED BY <1>0, <1>10, <1>11 DEF NextCursor

LEMMA ServePageInv ==
    ASSUME RelistingInv, ServePage PROVE RelistingInv'
PROOF
<1> DEFINE t == using.table
           rest == {k \in contents[t] : Follows(t, k, cursor)}
<1>0. PICK taken : TakesPage(t, taken)
  BY DEF ServePage, StartKey, TakesPage
<1>1. /\ taken \subseteq rest
      /\ listed' = [listed EXCEPT ![t] =
                      [k \in Key |-> IF k \notin taken THEN listed[t][k]
                                 ELSE IF listed[t][k] = 0 THEN 1 ELSE 2]]
      /\ NextCursor(cursor', t, taken, rest)
  BY <1>0 DEF TakesPage
<1>2. /\ pc = "asking" /\ Fits(cursor, t)
      /\ pc' = IF cursor' = None THEN "finished" ELSE "ready"
      /\ using' = None /\ sources' = sources \cup {t}
      /\ UNCHANGED <<profile, contents, cut, stable>>
  BY DEF ServePage, StartKey
<1>3. using \in Bindings /\ t \in Table /\ cursor \in Cursors \ {Garbled}
  BY <1>2, RelistingAssumption DEF RelistingInv, TypeOK
<1>4. listed' \in [Table -> [Key -> 0 .. 2]]
  <2>1. listed \in [Table -> [Key -> 0 .. 2]]
    BY DEF RelistingInv, TypeOK
  <2>2. [k \in Key |-> IF k \notin taken THEN listed[t][k]
                      ELSE IF listed[t][k] = 0 THEN 1 ELSE 2] \in [Key -> 0 .. 2]
    BY <1>3, <2>1
  <2> QED BY <1>1, <1>3, <2>1, <2>2
<1>5. cursor' \in Cursors
  <2>1. ASSUME IsCursorOf(cursor', t, taken) PROVE cursor' \in Cursors
    <3>1. taken \subseteq Key
      BY <1>1, <1>3 DEF RelistingInv, TypeOK
    <3> QED BY <1>3, <2>1, <3>1 DEF IsCursorOf, Cursors
  <2> QED BY <1>1, <2>1 DEF NextCursor, Cursors
<1>6. cursor' # None => cursor'.schema = SchemaOf[t] /\ cursor' # Garbled
  <2>1. ASSUME IsCursorOf(cursor', t, taken)
        PROVE  cursor'.schema = SchemaOf[t] /\ cursor' # Garbled
    <3>1. taken \subseteq Key
      BY <1>1, <1>3 DEF RelistingInv, TypeOK
    <3> QED BY <1>3, <2>1, <3>1, RelistingAssumption DEF IsCursorOf
  <2> QED BY <1>1, <2>1 DEF NextCursor
<1>7. TypeOK'
  BY <1>2, <1>3, <1>4, <1>5 DEF RelistingInv, TypeOK
<1>8. \A u \in sources : SchemaOf[u] = SchemaOf[t]
  <2> SUFFICES ASSUME NEW u \in sources PROVE SchemaOf[u] = SchemaOf[t]
    OBVIOUS
  <2>1. cursor \notin {None, Garbled}
    BY <1>2, <1>3 DEF RelistingInv, PositionInv
  <2> QED BY <1>2, <2>1 DEF Fits, RelistingInv, PositionInv
<1>9. SchemasNeverMix'
  BY <1>2, <1>8 DEF SchemasNeverMix
<1>10. ASSUME NEW u \in Table, sources' = {u} PROVE u = t /\ sources \subseteq {t}
  BY <1>2, <1>10
<1>11. ASSUME sources \subseteq {t}
       PROVE  /\ \A k \in Key : listed'[t][k] <= 1
              /\ cursor' = None => \A k \in stable[t] : listed'[t][k] = 1
              /\ cursor' # None =>
                   /\ \A k \in Key : listed'[t][k] = 0 \/ ~Follows(t, k, cursor')
                   /\ \A k \in stable[t] :
                         listed'[t][k] = 1 \/ Follows(t, k, cursor')
  BY <1>0, <1>2, <1>3, <1>11, PageFacts
<1>12. PositionInv'
  <2>1. sources' # {} /\ pc' # "finished" => cursor' # None
    BY <1>2
  <2>2. ASSUME NEW u \in Table, sources' = {u}, cursor' \notin {None, Garbled}
        PROVE  /\ \A k \in Key : listed'[u][k] = 0 \/ ~Follows(u, k, cursor')
               /\ \A k \in stable'[u] : listed'[u][k] = 1 \/ Follows(u, k, cursor')
    BY <1>2, <1>10, <1>11, <2>2
  <2>3. \A u \in sources' : cursor' \notin {None, Garbled} => cursor'.schema = SchemaOf[u]
    BY <1>2, <1>6, <1>8
  <2>4. sources' # {} /\ (pc' # "finished" => (cursor' = None <=> sources' = {}))
    BY <1>2, <2>1
  <2>5. \A u \in Table : sources' = {u} /\ cursor' \notin {None, Garbled} =>
          /\ \A k \in Key : listed'[u][k] = 0 \/ ~Follows(u, k, cursor')
          /\ \A k \in stable'[u] : listed'[u][k] = 1 \/ Follows(u, k, cursor')
    BY <2>2
  <2> QED BY <2>3, <2>4, <2>5 DEF PositionInv, Follows
<1>13. OnceFromOneTable'
  BY <1>10, <1>11 DEF OnceFromOneTable
<1>14. CompleteFromOneTable'
  BY <1>2, <1>10, <1>11 DEF CompleteFromOneTable
<1> QED BY <1>2, <1>7, <1>9, <1>12, <1>13, <1>14 DEF RelistingInv

\* The steps that deliver nothing and leave the tables alone.
LEMMA OtherStepsInv ==
    ASSUME RelistingInv,
           \/ \E b \in Bindings : Register(b)
           \/ EmptyPage \/ AskPage \/ PageFails \/ Corrupt
    PROVE  RelistingInv'
PROOF
<1> USE DEF walk
<1>1. UNCHANGED <<contents, listed, sources, stable>>
  BY DEF Register, EmptyPage, AskPage, PageFails, Corrupt
<1>2. /\ profile' \in Bindings \cup {None} /\ using' \in Bindings \cup {None}
      /\ cursor' \in {cursor, None, Garbled} /\ cut' \in BOOLEAN
      /\ pc' \in {"ready", "asking", "finished"}
  BY DEF Register, EmptyPage, AskPage, PageFails, Corrupt, RelistingInv, TypeOK
<1>3. /\ pc' # "finished" => (cursor' = None <=> sources = {})
      /\ pc' = "asking" => using' # None /\ cursor' # Garbled
      /\ pc' = "finished" => cursor' = None
      /\ pc' = "finished" /\ ~cut' => pc = "finished" /\ ~cut
  <2>1. CASE \E b \in Bindings : Register(b)
    BY <2>1 DEF Register, RelistingInv, PositionInv
  <2>2. CASE EmptyPage
    BY <2>2 DEF EmptyPage
  <2>3. CASE AskPage
    BY <2>3, RelistingAssumption DEF AskPage, Decodes, RelistingInv, PositionInv, TypeOK
  <2>4. CASE PageFails
    BY <2>4 DEF PageFails, RelistingInv, PositionInv
  <2>5. CASE Corrupt
    BY <2>5, RelistingAssumption DEF Corrupt, RelistingInv, PositionInv
  <2> QED BY <2>1, <2>2, <2>3, <2>4, <2>5
<1>4. TypeOK'
  BY <1>1, <1>2 DEF RelistingInv, TypeOK, Cursors
<1>5. PositionInv'
  BY <1>1, <1>2, <1>3 DEF RelistingInv, PositionInv, Follows
<1>6. OnceFromOneTable' /\ CompleteFromOneTable' /\ SchemasNeverMix'
  BY <1>1, <1>3 DEF RelistingInv, OnceFromOneTable, CompleteFromOneTable, SchemasNeverMix
<1> QED BY <1>3, <1>4, <1>5, <1>6 DEF RelistingInv

LEMMA RestartInv ==
    ASSUME RelistingInv, Restart PROVE RelistingInv'
PROOF
<1> USE DEF Restart
<1>1. listed' \in [Table -> [Key -> 0 .. 2]]
  BY DEF nothingListed
<1>2. TypeOK'
  BY <1>1 DEF RelistingInv, TypeOK, Cursors
<1>3. PositionInv'
  BY DEF PositionInv
<1>4. OnceFromOneTable' /\ CompleteFromOneTable' /\ SchemasNeverMix'
  BY DEF OnceFromOneTable, CompleteFromOneTable, SchemasNeverMix
<1> QED BY <1>2, <1>3, <1>4 DEF RelistingInv

\* The invariant of a walk across registrations holds in every reachable state.
THEOREM RelistingInvariant == Spec => []RelistingInv
PROOF
<1>1. Init => RelistingInv
  BY RelistingInvInit
<1>2. ASSUME RelistingInv, [Next]_vars PROVE RelistingInv'
  <2>1. CASE UNCHANGED vars
    <3>1. TypeOK' /\ PositionInv'
      BY <1>2, <2>1 DEF vars, RelistingInv, TypeOK, PositionInv, Follows
    <3>2. OnceFromOneTable' /\ CompleteFromOneTable' /\ SchemasNeverMix'
      BY <1>2, <2>1 DEF vars, RelistingInv, OnceFromOneTable, CompleteFromOneTable,
         SchemasNeverMix
    <3> QED BY <1>2, <2>1, <3>1, <3>2 DEF vars, RelistingInv
  <2> QED
    BY <1>2, <2>1, TablesInv, ServePageInv, OtherStepsInv, RestartInv DEF Next
<1> QED BY <1>1, <1>2, PTL DEF Spec

\* Registering a binding of the same table again never makes a walk deliver an
\* item twice.
THEOREM NothingTwiceAcrossBindings == Spec => []OnceFromOneTable
PROOF
<1>1. RelistingInv => OnceFromOneTable
  BY DEF RelistingInv
<1> QED BY <1>1, RelistingInvariant, PTL

\* Nor does it make a walk miss a stable item.
THEOREM NothingMissedAcrossBindings == Spec => []CompleteFromOneTable
PROOF
<1>1. RelistingInv => CompleteFromOneTable
  BY DEF RelistingInv
<1> QED BY <1>1, RelistingInvariant, PTL

\* One listing never has rows of tables with different key schemas.
THEOREM SchemasStayApart == Spec => []SchemasNeverMix
PROOF
<1>1. RelistingInv => SchemasNeverMix
  BY DEF RelistingInv
<1> QED BY <1>1, RelistingInvariant, PTL

=============================================================================
