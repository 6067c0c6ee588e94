--------------------------- MODULE ListingProofs ---------------------------
(***************************************************************************)
(* That a walk of Listing delivers nothing twice and misses nothing        *)
(* stable, for every table, filter, page size and integer width.           *)
(***************************************************************************)
EXTENDS Listing, TLAPS

\* Cutting the upper bits off never makes a limit larger.
LEMMA NarrowShrinks ==
    ASSUME NEW n \in Nat
    PROVE  Narrow(n) \in Int /\ Narrow(n) <= n
PROOF
<1> DEFINE d == 2 * Half
<1>1. d \in Nat /\ d > 0 /\ Half \in Nat
  BY HalfAssumption
<1>2. n % d \in 0 .. d - 1
  BY <1>1
<1>3. n % d <= n
  <2>1. CASE n < d
    BY <1>1, <2>1
  <2>2. CASE n >= d
    BY <1>1, <1>2, <2>2
  <2> QED BY <1>1, <2>1, <2>2
<1> HIDE DEF d
<1>4. Narrow(n) = IF n % d < Half THEN n % d ELSE (n % d) - d
  BY DEF Narrow, d
<1> QED BY <1>1, <1>2, <1>3, <1>4

\* A page evaluates no more items than the operator or the caller allows.
LEMMA LimitBounds ==
    ASSUME mode \in {"list", "scan"}, asked \in Asked
    PROVE  /\ Limit \in Int
           /\ Limit <= MaxPageSize
           /\ mode = "scan" /\ asked # None /\ asked >= 1 => Limit <= asked
PROOF
<1>1. asked = None \/ asked \in Int
  BY AskedAssumption
<1>2. MaxPageSize \in Nat /\ MaxPageSize >= 1 /\ ListPageSize \in Nat
  BY PageAssumption
<1>3. CASE mode = "list"
  BY <1>2, <1>3 DEF Limit, ListLimit, Smaller, Larger
<1>4. CASE mode = "scan" /\ (asked = None \/ ~(asked >= 1))
  BY <1>2, <1>4 DEF Limit, ClampLimit
<1>5. CASE mode = "scan" /\ asked # None /\ asked >= 1
  <2>1. Narrow(asked) \in Int /\ Narrow(asked) <= asked
    BY <1>1, <1>5, NarrowShrinks
  <2>2. Limit = Smaller(Narrow(asked), MaxPageSize)
    BY <1>5 DEF Limit, ClampLimit
  <2> QED BY <1>1, <1>2, <1>5, <2>1, <2>2 DEF Smaller
<1> QED BY <1>3, <1>4, <1>5

-----------------------------------------------------------------------------

\* Delivering a page leaves nothing after it delivered, delivers nothing twice
\* and everything stable up to its end.
LEMMA DeliverFacts ==
    ASSUME ListingInv, pc = "scanning", Deliver
    PROVE  /\ listed' \in [Key -> Nat]
           /\ \A k \in Key : listed'[k] <= 1
           /\ \A k \in Key : k > pos => listed'[k] = 0
           /\ \A k \in stable \cap Shown : k <= pos => listed'[k] = 1
PROOF
<1>1. /\ listed \in [Key -> Nat] /\ start \in Nat /\ pos \in Nat
      /\ stable \subseteq Key /\ Key \subseteq Nat /\ page \subseteq Key
  BY KeysAssumption DEF ListingInv, TypeOK, Key
<1>2. listed' = [k \in Key |-> IF k \in page THEN listed[k] + 1 ELSE listed[k]]
  BY DEF Deliver
<1>3. /\ start <= pos
      /\ \A k \in page : start < k /\ k <= pos
      /\ \A k \in stable \cap Shown : start < k /\ k <= pos => k \in page
  BY DEF ListingInv, StretchInv
<1>4. /\ \A k \in Key : k > start => listed[k] = 0
      /\ \A k \in stable \cap Shown : k <= start => listed[k] = 1
  BY DEF ListingInv, DeliveredInv
<1>5. \A k \in Key : listed[k] <= 1
  BY DEF ListingInv, ListedOnce
<1>6. listed' \in [Key -> Nat]
  BY <1>1, <1>2
<1>7. ASSUME NEW k \in Key PROVE listed'[k] <= 1
  BY <1>1, <1>2, <1>3, <1>4, <1>5, <1>7
<1>8. ASSUME NEW k \in Key, k > pos PROVE listed'[k] = 0
  BY <1>1, <1>2, <1>3, <1>4, <1>8
<1>9. ASSUME NEW k \in stable \cap Shown, k <= pos PROVE listed'[k] = 1
  <2>1. CASE k <= start
    <3>1. k \notin page
      BY <1>1, <1>3, <2>1
    <3> QED BY <1>1, <1>2, <1>4, <2>1, <3>1
  <2>2. CASE start < k
    <3>1. k \in page /\ listed[k] = 0
      BY <1>1, <1>3, <1>4, <1>9, <2>2
    <3> QED BY <1>1, <1>2, <3>1
  <2> QED BY <1>1, <2>1, <2>2
<1> QED BY <1>6, <1>7, <1>8, <1>9

LEMMA ListingInvInit ==
    ASSUME Init PROVE ListingInv
PROOF
<1>1. TypeOK
  BY KeysAssumption DEF Init, TypeOK, Key
<1>2. PageBounded
  BY PageAssumption, AskedAssumption DEF Init, PageBounded
<1>3. StretchInv /\ StableListed
  BY DEF Init, StretchInv, StableListed
<1>4. DeliveredInv /\ ListedOnce
  BY DEF Init, DeliveredInv, ListedOnce
<1> QED BY <1>1, <1>2, <1>3, <1>4 DEF ListingInv

LEMMA ListingInvNext ==
    ASSUME ListingInv, [Next]_vars PROVE ListingInv'
PROOF
<1> USE DEF ListingInv
<1>0. /\ mode \in {"list", "scan"} /\ asked \in Asked
      /\ Key \subseteq Nat /\ start \in Nat /\ pos \in Nat /\ count \in Nat
  BY KeysAssumption DEF TypeOK, Key
<1>1. ASSUME NEW k \in Key, PutItem(k) PROVE ListingInv'
  BY <1>1 DEF PutItem, walkUnchanged, TypeOK, PageBounded, StretchInv,
     DeliveredInv, ListedOnce, StableListed, Shown
<1>2. ASSUME NEW k \in Key, DeleteItem(k) PROVE ListingInv'
  BY <1>2 DEF DeleteItem, walkUnchanged, TypeOK, PageBounded, StretchInv,
     DeliveredInv, ListedOnce, StableListed, Shown
<1>3. CASE Begin
  BY <1>0, <1>3, KeysAssumption DEF Begin, TypeOK, PageBounded, StretchInv,
     DeliveredInv, ListedOnce, StableListed, Shown, Key
<1>4. CASE Ask
  <2>1. TypeOK'
    BY <1>4 DEF Ask, TypeOK
  <2>2. PageBounded'
    BY <1>0, <1>4, PageAssumption, AskedAssumption DEF Ask, PageBounded
  <2>3. StretchInv'
    BY <1>0, <1>4, KeysAssumption DEF Ask, StretchInv, TypeOK, Key
  <2>4. DeliveredInv' /\ ListedOnce' /\ StableListed'
    BY <1>4 DEF Ask, DeliveredInv, ListedOnce, StableListed, Shown
  <2> QED BY <2>1, <2>2, <2>3, <2>4
<1>5. ASSUME NEW k \in Key, Evaluate(k) PROVE ListingInv'
  <2>1. TypeOK'
    <3>1. /\ pos' = k /\ k \in 0 .. Keys
          /\ count' = count + 1 /\ page' = page \cup ({k} \cap Shown)
          /\ UNCHANGED <<table, mode, asked, pc, start, listed, stable>>
      BY <1>5, KeysAssumption DEF Evaluate, Key
    <3>2. page' \subseteq Key
      BY <1>5, <3>1 DEF TypeOK
    <3>3. count' \in Nat
      BY <1>0, <3>1
    <3> QED BY <3>1, <3>2, <3>3 DEF TypeOK
  <2>2. PageBounded'
    <3>1. /\ Limit \in Int /\ Limit <= MaxPageSize
          /\ mode = "scan" /\ asked # None /\ asked >= 1 => Limit <= asked
      BY <1>0, LimitBounds
    <3>2. count' <= Limit /\ count' \in Int /\ mode' = mode /\ asked' = asked
      BY <1>0, <1>5, <3>1 DEF Evaluate
    <3> QED
      BY <1>0, <3>1, <3>2, PageAssumption, AskedAssumption DEF PageBounded
  <2>3. StretchInv'
    <3>1. /\ pos' = k /\ k > pos /\ start' = start /\ stable' = stable
          /\ page' = page \cup ({k} \cap Shown) /\ Shown' = Shown
          /\ \A j \in table : j > pos => j >= k
      BY <1>5 DEF Evaluate, Shown
    <3>2. /\ start <= pos
          /\ \A j \in page : start < j /\ j <= pos /\ j \in Shown
          /\ \A j \in stable \cap Shown : start < j /\ j <= pos => j \in page
      BY <1>5 DEF Evaluate, StretchInv
    <3>3. page \subseteq Key /\ stable \subseteq table /\ table \subseteq Key
      BY DEF TypeOK
    <3>4. \A j \in page' : start < j /\ j <= k /\ j \in Shown
      BY <1>0, <3>1, <3>2, <3>3
    <3>5. ASSUME NEW j \in stable \cap Shown, start < j, j <= k
          PROVE  j \in page'
      BY <1>0, <3>1, <3>2, <3>3, <3>5
    <3> QED BY <1>0, <3>1, <3>2, <3>4, <3>5 DEF StretchInv
  <2>4. DeliveredInv' /\ ListedOnce' /\ StableListed'
    BY <1>5 DEF Evaluate, DeliveredInv, ListedOnce, StableListed, Shown
  <2> QED BY <2>1, <2>2, <2>3, <2>4
<1>6. CASE EndPage
  <2>1. /\ listed' \in [Key -> Nat]
        /\ \A k \in Key : listed'[k] <= 1
        /\ \A k \in Key : k > pos => listed'[k] = 0
        /\ \A k \in stable \cap Shown : k <= pos => listed'[k] = 1
    BY <1>6, DeliverFacts DEF EndPage
  <2>2. TypeOK' /\ PageBounded' /\ StretchInv'
    BY <1>6, <2>1 DEF EndPage, TypeOK, PageBounded, StretchInv
  <2>3. DeliveredInv' /\ ListedOnce' /\ StableListed'
    BY <1>6, <2>1 DEF EndPage, DeliveredInv, ListedOnce, StableListed, Shown
  <2> QED BY <2>2, <2>3
<1>7. CASE EndTable
  <2>1. /\ listed' \in [Key -> Nat]
        /\ \A k \in Key : listed'[k] <= 1
        /\ \A k \in stable \cap Shown : k <= pos => listed'[k] = 1
    BY <1>7, DeliverFacts DEF EndTable
  <2>2. TypeOK' /\ PageBounded' /\ StretchInv' /\ DeliveredInv' /\ ListedOnce'
    BY <1>7, <2>1 DEF EndTable, TypeOK, PageBounded, StretchInv, DeliveredInv,
       ListedOnce
  <2>3. \A k \in stable \cap Shown : k <= pos
    BY <1>7 DEF EndTable, TypeOK
  <2>4. StableListed'
    BY <1>7, <2>1, <2>3 DEF EndTable, StableListed, Shown
  <2> QED BY <2>2, <2>4
<1>8. CASE PageFails
  BY <1>8 DEF PageFails, TypeOK, PageBounded, StretchInv, DeliveredInv,
     ListedOnce, StableListed, Shown
<1>9. CASE Abandon
  BY <1>9 DEF Abandon, TypeOK, PageBounded, StretchInv, DeliveredInv,
     ListedOnce, StableListed, Shown
<1>10. CASE UNCHANGED vars
  BY <1>10 DEF vars, TypeOK, PageBounded, StretchInv, DeliveredInv,
     ListedOnce, StableListed, Shown
<1> QED
  BY <1>1, <1>2, <1>3, <1>4, <1>5, <1>6, <1>7, <1>8, <1>9, <1>10
     DEF Next, Walk

\* The invariant of a walk holds in every reachable state.
THEOREM ListingInvariant == Spec => []ListingInv
PROOF
<1>1. Init => ListingInv
  BY ListingInvInit
<1>2. ListingInv /\ [Next]_vars => ListingInv'
  BY ListingInvNext
<1> QED BY <1>1, <1>2, PTL DEF Spec

\* No item is delivered twice in one walk (clamp, cursor and pages together).
THEOREM NothingListedTwice == Spec => []ListedOnce
PROOF
<1>1. ListingInv => ListedOnce
  BY DEF ListingInv
<1> QED BY <1>1, ListingInvariant, PTL

\* A finished walk has delivered every stable item that it should show.
THEOREM NothingStableMissed == Spec => []StableListed
PROOF
<1>1. ListingInv => StableListed
  BY DEF ListingInv
<1> QED BY <1>1, ListingInvariant, PTL

\* No page evaluates more items than the operator, or the caller, allows.
THEOREM PagesAreBounded == Spec => []PageBounded
PROOF
<1>1. ListingInv => PageBounded
  BY DEF ListingInv
<1> QED BY <1>1, ListingInvariant, PTL

\* Every variable of a walk keeps its type, the set of stable keys included.
THEOREM TypeCorrect == Spec => []TypeOK
PROOF
<1>1. ListingInv => TypeOK
  BY DEF ListingInv
<1> QED BY <1>1, ListingInvariant, PTL

\* A limit that fits the request's 32 bits is what the documentation says: what
\* the caller asks for, or the operator's page if that is smaller, and never
\* zero.
THEOREM FittingLimits ==
    ASSUME NEW n \in Int, n # None, 1 <= n, n < Half
    PROVE  ClampLimit(n) = Smaller(n, MaxPageSize) /\ ClampLimit(n) \in 1 .. MaxPageSize
PROOF
<1>1. n % (2 * Half) = n
  BY HalfAssumption
<1>2. Narrow(n) = n
  BY <1>1, HalfAssumption DEF Narrow
<1> QED BY <1>2, PageAssumption DEF ClampLimit, Smaller

\* A page evaluates different keys, each after the one before.
LEMMA ReachStep ==
    ASSUME TypeOK, ReachInv, [Next]_vars PROVE ReachInv'
PROOF
<1>1. CASE Ask
  BY <1>1, KeysAssumption DEF Ask, ReachInv, TypeOK
<1>2. CASE \E k \in Key : Evaluate(k)
  BY <1>2, KeysAssumption DEF Evaluate, ReachInv, TypeOK, Key
<1>3. CASE \/ Begin \/ EndPage \/ EndTable \/ PageFails \/ Abandon
           \/ \E k \in Key : PutItem(k) \/ DeleteItem(k)
           \/ UNCHANGED vars
  BY <1>3 DEF Begin, EndPage, EndTable, PageFails, Abandon, PutItem, DeleteItem,
              walkUnchanged, vars, ReachInv
<1> QED BY <1>1, <1>2, <1>3 DEF Next, Walk

\* No walk goes round in circles: every page with a cursor ends further on than
\* it began, by at least the items it evaluated.
THEOREM NoCursorTwice == Spec => CursorsAdvance
PROOF
<1>1. Init => ReachInv
  BY DEF Init, ReachInv
<1>2. TypeOK /\ ReachInv /\ [Next]_vars => ReachInv'
  BY ReachStep
<1>3. TypeOK /\ ReachInv /\ [Next]_vars
        => [/\ start' >= start
            /\ EndPage => count > 0 /\ start' >= start + count]_vars
  <2> SUFFICES ASSUME TypeOK, ReachInv, Next
               PROVE  /\ start' >= start
                      /\ EndPage => count > 0 /\ start' >= start + count
    OBVIOUS
  <2>1. start \in Nat /\ pos \in Nat /\ count \in Nat
    BY KeysAssumption DEF TypeOK
  <2>2. EndPage => start' = pos /\ count > 0 /\ start + count <= pos
    BY DEF EndPage, ReachInv
  <2>3. ~EndPage => start' = start
    BY DEF Next, Walk, Begin, Ask, Evaluate, EndTable, PageFails, Abandon,
           PutItem, DeleteItem, walkUnchanged, vars
  <2> QED BY <2>1, <2>2, <2>3
<1> QED BY <1>1, <1>2, <1>3, TypeCorrect, PTL DEF Spec, CursorsAdvance

\* A walk begins as an enumeration does.
LEMMA InitEnumerates ==
    ASSUME Init PROVE Walked!Init
PROOF BY DEF Init, Walked!Init

\* A page that is delivered is new to the client and belongs to what it lists.
LEMMA PageIsGiven ==
    ASSUME ListingInv, pc = "scanning", Deliver,
           UNCHANGED <<table, mode, stable>>
    PROVE  Walked!Give(page)
PROOF
<1>1. \A k \in page : start < k /\ k \in Shown /\ k \in Key
  BY DEF ListingInv, StretchInv, TypeOK
<1>2. \A k \in page : listed[k] = 0
  BY <1>1 DEF ListingInv, DeliveredInv
<1>3. Shown' = Shown
  BY DEF Shown
<1> QED BY <1>1, <1>2, <1>3 DEF Walked!Give, Deliver

\* Every step of a walk is a step of the enumeration, or none.
LEMMA NextEnumerates ==
    ASSUME ListingInv, [Next]_vars PROVE [Walked!Next]_(Walked!enumeration)
PROOF
<1> USE DEF Walked!enumeration
<1>0. page \subseteq Key /\ table \subseteq Key /\ stable \subseteq table
  BY DEF ListingInv, TypeOK
<1>1. ASSUME NEW k \in Key, PutItem(k) \/ DeleteItem(k) PROVE Walked!Next
  <2>1. Walked!Change
    BY <1>0, <1>1 DEF PutItem, DeleteItem, walkUnchanged, Shown, Walked!Change
  <2> QED BY <2>1 DEF Walked!Next
<1>2. CASE Begin
  <2>1. Walked!Begin
    BY <1>2 DEF Begin, Shown, Walked!Begin
  <2> QED BY <2>1 DEF Walked!Next
<1>3. CASE EndPage
  <2>1. Walked!Give(page)
    BY <1>3, PageIsGiven DEF EndPage
  <2>2. Walked!Deliver(page)
    BY <1>3, <2>1 DEF EndPage, Walked!Deliver
  <2> QED BY <1>0, <2>2 DEF Walked!Next
<1>4. CASE EndTable
  <2>1. Walked!Give(page)
    BY <1>4, PageIsGiven DEF EndTable
  <2>2. \A k \in stable \cap Shown : listed'[k] = 1
    BY <1>0, <1>4, DeliverFacts DEF EndTable
  <2>3. Walked!Finish(page)
    BY <1>4, <2>1, <2>2 DEF EndTable, Walked!Finish
  <2> QED BY <1>0, <2>3 DEF Walked!Next
<1>5. CASE Abandon
  <2>1. Walked!Abandon
    BY <1>5 DEF Abandon, Shown, Walked!Abandon
  <2> QED BY <2>1 DEF Walked!Next
<1>6. CASE Ask \/ PageFails \/ (\E k \in Key : Evaluate(k))
  BY <1>6 DEF Ask, PageFails, Evaluate, Shown
<1>7. CASE UNCHANGED vars
  BY <1>7 DEF vars, Shown
<1> QED
  BY <1>1, <1>2, <1>3, <1>4, <1>5, <1>6, <1>7 DEF Next, Walk

\* Pages, cursors, limits, filters and failed requests implement the
\* enumeration that a client is promised.
THEOREM ListingRefinement == Spec => EnumerationSpec
PROOF
<1>1. Init => Walked!Init
  BY InitEnumerates
<1>2. ListingInv /\ [Next]_vars => [Walked!Next]_(Walked!enumeration)
  BY NextEnumerates
<1> QED BY <1>1, <1>2, ListingInvariant, PTL DEF Spec, EnumerationSpec, Walked!Spec

=============================================================================
