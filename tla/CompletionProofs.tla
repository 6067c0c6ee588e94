-------------------------- MODULE CompletionProofs --------------------------
(***************************************************************************)
(* The promises of a completion list, for every partition, every binding   *)
(* (any max_results, any page size that registration accepts) and every    *)
(* interleaving of typing, writes and registrations.                       *)
(***************************************************************************)
EXTENDS Completion, FiniteSetTheorems, WellFoundedInduction, TLAPS

-----------------------------------------------------------------------------
(* Counting places                                                         *)

\* A set of positions is finite, and so is what precedes a place in it.
LEMMA FinitePlaces ==
    ASSUME NEW S \in SUBSET Position
    PROVE  IsFiniteSet(S) /\ Cardinality(S) \in Nat
<1>1. IsFiniteSet(Position)
  BY FS_Interval, SizeAssumption DEF Position
<1>2. IsFiniteSet(S)
  BY <1>1, FS_Subset
<1> QED BY <1>2, FS_CardinalityType

\* A non-empty set of positions has a last place.
LEMMA LastPlace ==
    ASSUME NEW S \in SUBSET Position, S # {}
    PROVE  \E m \in S : \A i \in S : i <= m
<1> DEFINE T == {Positions - i : i \in S}
<1>1. T \subseteq Nat /\ T # {}
  BY SizeAssumption DEF Position
<1>2. PICK t \in T : \A u \in T : ~ (<<u, t>> \in OpToRel(<, Nat))
  BY <1>1, NatLessThanWellFounded, WFMin
<1>3. PICK m \in S : t = Positions - m
  OBVIOUS
<1>4. ASSUME NEW i \in S PROVE i <= m
  <2>1. Positions - i \in T
    OBVIOUS
  <2>2. ~ (Positions - i < t)
    BY <1>1, <1>2, <2>1 DEF OpToRel
  <2> QED BY <1>3, <2>2, SizeAssumption DEF Position
<1> QED BY <1>4

\* The first n of some places are n at most.
LEMMA FirstIsShort ==
    ASSUME NEW S \in SUBSET Position, NEW n \in Nat
    PROVE  Cardinality(First(n, S)) <= n
<1>1. First(n, S) \in SUBSET Position
  BY DEF First
<1>2. CASE First(n, S) = {}
  BY <1>2, FS_EmptySet
<1>3. CASE First(n, S) # {}
  <2>1. PICK m \in First(n, S) : \A i \in First(n, S) : i <= m
    BY <1>1, <1>3, LastPlace
  <2> DEFINE Before == {j \in S : j < m}
  <2>2. First(n, S) \ {m} \subseteq Before
    BY <1>1, <2>1, SizeAssumption DEF First, Position
  <2>3. IsFiniteSet(Before) /\ Cardinality(Before) \in Nat
    BY FinitePlaces
  <2>4. Cardinality(First(n, S) \ {m}) <= Cardinality(Before)
    BY <2>2, <2>3, FS_Subset
  <2>5. Cardinality(Before) < n
    BY <2>1 DEF First
  <2>6. Cardinality(First(n, S) \ {m}) = Cardinality(First(n, S)) - 1
    BY <1>1, <2>1, FinitePlaces, FS_RemoveElement
  <2> QED BY <1>1, <2>3, <2>4, <2>5, <2>6, FinitePlaces
<1> QED BY <1>2, <1>3

\* What is among the first n stays among them when fewer places count, or a
\* place before it is asked for.
LEMMA FirstIsClosed ==
    ASSUME NEW S \in SUBSET Position, NEW T \in SUBSET S, NEW n \in Nat,
           NEW i \in First(n, S), NEW j \in T, j <= i
    PROVE  j \in First(n, T)
<1>1. {k \in T : k < j} \subseteq {k \in S : k < i}
  <2> SUFFICES ASSUME NEW k \in T, k < j PROVE k \in S /\ k < i
    OBVIOUS
  <2>1. i \in Int /\ j \in Int /\ k \in Int
    BY SizeAssumption DEF Position, First
  <2> QED BY <2>1
<1>2. /\ IsFiniteSet({k \in S : k < i})
      /\ Cardinality({k \in S : k < i}) \in Nat /\ Cardinality({k \in T : k < j}) \in Nat
  BY FinitePlaces
<1>3. Cardinality({k \in T : k < j}) <= Cardinality({k \in S : k < i})
  BY <1>1, <1>2, FS_Subset
<1>4. Cardinality({k \in S : k < i}) < n
  BY DEF First
<1> QED BY <1>2, <1>3, <1>4 DEF First

\* When there are no more than n places, all are among the first n.
LEMMA FirstIsAll ==
    ASSUME NEW S \in SUBSET Position, NEW n \in Nat, Cardinality(S) <= n,
           NEW i \in S
    PROVE  i \in First(n, S)
<1>1. {k \in S : k < i} \subseteq S \ {i}
  BY SizeAssumption DEF Position
<1>2. IsFiniteSet(S \ {i}) /\ Cardinality(S \ {i}) = Cardinality(S) - 1
  BY FinitePlaces, FS_RemoveElement
<1>3. Cardinality({k \in S : k < i}) <= Cardinality(S) - 1
  BY <1>1, <1>2, FS_Subset
<1> QED BY <1>3, FinitePlaces DEF First

-----------------------------------------------------------------------------
(* The candidates of a Query                                               *)

\* Clamping to a page, and then to one.
LEMMA ClampToPage ==
    ASSUME NEW max \in Int, NEW page \in Nat \ {0}
    PROVE  /\ Larger(Smaller(max, page), 1) \in Nat \ {0}
           /\ Larger(Smaller(max, page), 1) <= page
<1>1. Smaller(max, page) \in Int /\ Smaller(max, page) <= page
  BY DEF Smaller
<1> QED BY <1>1 DEF Larger

\* Limit and cut of a binding: at least 1, at least 0.
LEMMA Sizes ==
    ASSUME NEW b \in Completing
    PROVE  /\ Smaller(Limit(b), Megabyte) \in Nat \ {0} /\ Cut(b) \in Nat
           /\ b.page \in Nat /\ b.max \in Int
           /\ Smaller(Limit(b), Megabyte) <= b.page
<1>1. b.page \in 1 .. 1000 /\ b.max \in Int
  BY BindingAssumption DEF Binding
<1>2. Megabyte \in Nat \ {0}
  BY SizeAssumption
<1>3. Limit(b) \in Nat \ {0} /\ Limit(b) <= b.page
  <2>1. b.page \in Nat \ {0}
    BY <1>1
  <2> QED BY <1>1, <2>1, ClampToPage DEF Limit
<1>4. Smaller(Limit(b), Megabyte) \in {Limit(b), Megabyte}
  BY DEF Smaller
<1>5. Smaller(Limit(b), Megabyte) <= Limit(b)
  BY <1>2, <1>3 DEF Smaller
<1>6. Cut(b) \in Nat
  BY <1>1 DEF Cut, Larger
<1>7. Smaller(Limit(b), Megabyte) \in Nat \ {0}
  BY <1>2, <1>3, <1>4
<1>8. b.page \in Nat
  BY <1>1
<1>9. Smaller(Limit(b), Megabyte) <= b.page
  BY <1>3, <1>5, <1>7, <1>8
<1> QED BY <1>1, <1>6, <1>7, <1>8, <1>9

LEMMA CandidatesType ==
    ASSUME NEW b, NEW prefix
    PROVE  /\ Candidates(b, prefix) \subseteq First(Cut(b), Fetched(b, prefix))
           /\ First(Cut(b), Fetched(b, prefix)) \subseteq Fetched(b, prefix)
           /\ Fetched(b, prefix) \subseteq Matching(prefix)
           /\ Matching(prefix) \subseteq Position
           /\ \A i \in Candidates(b, prefix) : items[i].valued
<1>1. \A n, S : First(n, S) \subseteq S
  BY DEF First
<1> QED BY <1>1 DEF Candidates, Fetched, Matching

\* The list is no longer than max_results and than a page.
LEMMA CandidatesFew ==
    ASSUME NEW b \in Completing, NEW prefix
    PROVE  /\ Cardinality(Candidates(b, prefix)) <= Larger(b.max, 0)
           /\ Cardinality(Candidates(b, prefix)) <= b.page
<1> DEFINE C == Candidates(b, prefix)
           F == Fetched(b, prefix)
           G == First(Cut(b), F)
<1>1. C \subseteq G /\ G \subseteq F /\ F \in SUBSET Position
  BY CandidatesType
<1>2. Cardinality(G) <= Cut(b)
  BY <1>1, Sizes, FirstIsShort
<1>3. Cardinality(F) <= Smaller(Limit(b), Megabyte)
  <2>1. Matching(prefix) \in SUBSET Position
    BY DEF Matching
  <2> QED BY <2>1, Sizes, FirstIsShort DEF Fetched
<1>4. Cardinality(C) <= Cardinality(G) /\ Cardinality(C) <= Cardinality(F)
  BY <1>1, FinitePlaces, FS_Subset
<1>5. /\ Cardinality(C) \in Nat /\ Cardinality(F) \in Nat
      /\ Cardinality(G) \in Nat
  BY <1>1, FinitePlaces
<1> HIDE DEF C, F, G
<1>6. /\ Cardinality(C) <= Cut(b) /\ Cardinality(C) <= b.page
  BY <1>2, <1>3, <1>4, <1>5, Sizes
<1> QED BY <1>6 DEF C, Cut

\* A list with no gap: what matches, has a value and comes no later than a
\* place that is shown is shown too, even for a longer prefix.
LEMMA CandidatesClosed ==
    ASSUME NEW b \in Completing, NEW p \in 0 .. Typed, NEW q \in p .. Typed,
           items \in [Position -> Item \cup {None}],
           NEW i \in Candidates(b, p), NEW j \in Matching(q), j <= i,
           items[j].valued
    PROVE  j \in Candidates(b, q)
<1>1. Matching(q) \subseteq Matching(p) /\ Matching(p) \in SUBSET Position
  <2> SUFFICES ASSUME NEW k \in Matching(q) PROVE k \in Matching(p)
    BY DEF Matching
  <2>1. items[k].depth \in 0 .. Typed /\ items[k].depth >= q
    BY DEF Matching, Item
  <2> QED BY <2>1, SizeAssumption DEF Matching
<1>2. i \in Fetched(b, p) /\ i \in First(Cut(b), Fetched(b, p))
  BY CandidatesType
<1>3. \A k \in Matching(q) : k <= i => k \in Fetched(b, q)
  BY <1>1, <1>2, Sizes, FirstIsClosed DEF Fetched
<1> DEFINE S == Fetched(b, p)
           Before == {k \in Fetched(b, q) : k < j}
<1>4. Before \subseteq {k \in S : k < i}
  <2> SUFFICES ASSUME NEW k \in Before PROVE k \in S /\ k < i
    OBVIOUS
  <2>1. k \in Matching(p) /\ k \in Int /\ i \in Int /\ j \in Int
    BY <1>1, <1>2, CandidatesType, SizeAssumption DEF Position
  <2>2. k < i /\ k <= i
    BY <2>1
  <2> QED BY <1>1, <1>2, <2>1, <2>2, Sizes, FirstIsClosed DEF Fetched
<1>5. {k \in S : k < i} \in SUBSET Position /\ Before \in SUBSET Position
  BY CandidatesType
<1>6. Cardinality(Before) <= Cardinality({k \in S : k < i})
  BY <1>4, <1>5, FinitePlaces, FS_Subset
<1>7. Cardinality({k \in S : k < i}) < Cut(b)
  BY <1>2 DEF First
<1>8. Cardinality(Before) < Cut(b)
  BY <1>5, <1>6, <1>7, Sizes, FinitePlaces
<1> QED BY <1>3, <1>8 DEF Candidates, First

\* When what matches fits into the page, all its values are listed.
LEMMA CandidatesAll ==
    ASSUME NEW b \in Completing, NEW prefix,
           Cardinality(Matching(prefix)) <= Megabyte,
           Cardinality(Matching(prefix)) <= Smaller(b.max, b.page),
           NEW i \in Matching(prefix), items[i].valued
    PROVE  i \in Candidates(b, prefix)
<1>1. Matching(prefix) \in SUBSET Position
  BY DEF Matching
<1>2. Cardinality(Matching(prefix)) \in Nat
  BY <1>1, FinitePlaces
<1>3. /\ Cardinality(Matching(prefix)) <= Smaller(Limit(b), Megabyte)
      /\ Cardinality(Matching(prefix)) <= Cut(b)
  BY <1>2, Sizes, SizeAssumption DEF Limit, Cut, Smaller, Larger
<1>4. Matching(prefix) \subseteq Fetched(b, prefix)
  BY <1>1, <1>3, Sizes, FirstIsAll DEF Fetched
<1>5. Fetched(b, prefix) = Matching(prefix)
  BY <1>4, CandidatesType
<1>6. i \in First(Cut(b), Fetched(b, prefix))
  BY <1>1, <1>3, <1>5, Sizes, FirstIsAll
<1> QED BY <1>6 DEF Candidates

-----------------------------------------------------------------------------
(* The invariant                                                           *)

LEMMA TypeStep == TypeOK /\ [Next]_vars => TypeOK'
<1> SUFFICES ASSUME TypeOK, [Next]_vars PROVE TypeOK'
  OBVIOUS
<1>1. CASE UNCHANGED vars
  BY <1>1 DEF TypeOK, vars
<1>2. CASE Type \/ Erase
  <2>1. typed' \in 0 .. Typed
    BY <1>2, SizeAssumption DEF Type, Erase, TypeOK
  <2> QED BY <1>2, <2>1 DEF Type, Erase, TypeOK
<1>3. ASSUME NEW i \in Position, NEW item \in Item \cup {None}, Write(i, item)
      PROVE  TypeOK'
  BY <1>3 DEF Write, TypeOK
<1>4. ASSUME NEW b \in Completing, Register(b) PROVE TypeOK'
  BY <1>4 DEF Register, TypeOK
<1>5. CASE Ask
  <2>1. UNCHANGED <<items, binding, typed>> /\ settled' \in BOOLEAN
    BY <1>5 DEF Ask, TypeOK
  <2>2. call' \in Call \cup {None}
    BY <1>5 DEF Ask, TypeOK, Call
  <2>3. answer' \in Answer \cup {None}
    BY <1>5 DEF Ask, TypeOK, Answer
  <2> QED BY <2>1, <2>2, <2>3 DEF TypeOK
<1>6. CASE Reply
  <2>1. call \in Call
    BY <1>6 DEF Reply, TypeOK
  <2>2. Candidates(call.binding, call.prefix) \subseteq Position
    BY CandidatesType
  <2>3. answer' \in Answer
    BY <1>6, <2>1, <2>2 DEF Reply, Answer, Call
  <2> QED BY <1>6, <2>3 DEF Reply, TypeOK
<1>7. CASE Fail
  BY <1>7 DEF Fail, TypeOK
<1> QED BY <1>1, <1>2, <1>3, <1>4, <1>5, <1>6, <1>7 DEF Next

\* The candidates depend on nothing but the items.
LEMMA CandidatesFrame ==
    ASSUME UNCHANGED items, NEW b, NEW prefix
    PROVE  Candidates(b, prefix)' = Candidates(b, prefix)
  BY DEF Candidates, Fetched, Matching

LEMMA CurrentStep == CompletionInv /\ [Next]_vars => CurrentInv'
<1> SUFFICES ASSUME CompletionInv, [Next]_vars PROVE CurrentInv'
  OBVIOUS
<1> USE DEF CompletionInv
<1>1. CASE UNCHANGED <<items, answer, settled>>
  <2>1. Current' = Current
    BY <1>1 DEF Current
  <2>2. answer' = answer /\ UNCHANGED items
    BY <1>1
  <2> QED BY <2>1, <2>2, CandidatesFrame DEF CurrentInv
<1>2. CASE \E i \in Position, item \in Item \cup {None} : Write(i, item)
  BY <1>2 DEF Write, CurrentInv, Current
<1>3. CASE Ask
  <2>1. CASE UNCHANGED <<answer, settled>>
    BY <1>1, <1>3, <2>1 DEF Ask
  <2>2. CASE ~UNCHANGED <<answer, settled>>
    <3>1. ~Current'
      BY <1>3, <2>2 DEF Ask, Current
    <3> QED BY <3>1 DEF CurrentInv
  <2> QED BY <2>1, <2>2
<1>4. CASE Reply
  <2>1. /\ answer'.shown = Candidates(call.binding, call.prefix)
        /\ answer'.binding = call.binding /\ answer'.prefix = call.prefix
        /\ UNCHANGED items
    BY <1>4 DEF Reply
  <2> QED BY <2>1, CandidatesFrame DEF CurrentInv
<1>5. CASE Fail
  BY <1>5 DEF Fail, CurrentInv, Current
<1> QED BY <1>1, <1>2, <1>3, <1>4, <1>5 DEF Next, Type, Erase, Register, vars

\* The inductive invariant: types, and an answer nothing was written since is
\* what its Query gives of the partition.
THEOREM CompletionInvariant == Spec => []CompletionInv
<1>1. Init => CompletionInv
  <2> SUFFICES ASSUME Init PROVE CompletionInv
    OBVIOUS
  <2>1. typed \in 0 .. Typed
    BY SizeAssumption DEF Init
  <2>2. TypeOK
    BY <2>1 DEF Init, TypeOK
  <2>3. CurrentInv
    BY DEF Init, CurrentInv, Current
  <2> QED BY <2>2, <2>3 DEF CompletionInv
<1>2. CompletionInv /\ [Next]_vars => CompletionInv'
  BY TypeStep, CurrentStep DEF CompletionInv
<1> QED BY <1>1, <1>2, PTL DEF Spec

-----------------------------------------------------------------------------
(* The theorems                                                            *)

\* complete_template_variable never lists more than max_results or a page.
THEOREM ListsAreCapped == Spec => []WithinCap
<1>1. Init => WithinCap
  BY DEF Init, WithinCap
<1>2. CompletionInv /\ WithinCap /\ [Next]_vars => WithinCap'
  <2> SUFFICES ASSUME CompletionInv, WithinCap, [Next]_vars PROVE WithinCap'
    OBVIOUS
  <2> USE DEF CompletionInv
  <2>1. CASE answer' = answer
    BY <2>1 DEF WithinCap
  <2>2. CASE answer' = None
    BY <2>2 DEF WithinCap
  <2>3. CASE Ask /\ answer' # answer /\ answer' # None
    <3>1. answer'.binding \in Completing /\ answer'.shown = {}
      BY <2>3 DEF Ask, TypeOK
    <3>2. Cardinality(answer'.shown) = 0
      BY <3>1, FS_EmptySet
    <3> QED BY <3>1, <3>2, Sizes DEF WithinCap, Larger
  <2>4. CASE Reply
    <3>1. call.binding \in Completing
      BY <2>4 DEF Reply, TypeOK, Call
    <3>2. /\ answer'.binding = call.binding
          /\ answer'.shown = Candidates(call.binding, call.prefix)
      BY <2>4 DEF Reply
    <3> QED BY <3>1, <3>2, CandidatesFew DEF WithinCap
  <2> QED BY <2>1, <2>2, <2>3, <2>4
      DEF Next, Type, Erase, Write, Register, Fail, vars
<1> QED BY <1>1, <1>2, CompletionInvariant, PTL DEF Spec

\* Every candidate is the value of an item whose key begins with what the
\* client had typed (run_completion_query binds it as :prefix).
THEOREM CandidatesMatch == Spec => []OnlyMatches
<1>1. CompletionInv => OnlyMatches
  <2> SUFFICES ASSUME CompletionInv, Current
               PROVE  answer.shown \subseteq
                        {i \in Matching(answer.prefix) : items[i].valued}
    BY DEF OnlyMatches
  <2> QED BY CandidatesType DEF CompletionInv, CurrentInv
<1> QED BY <1>1, CompletionInvariant, PTL

\* The list has no gap, and is whole when what matches fits into a page.
THEOREM NothingWithheld == Spec => []NoneWithheld
<1>1. CompletionInv => NoneWithheld
  <2> SUFFICES ASSUME CompletionInv, Current,
                      NEW i \in Matching(answer.prefix), items[i].valued
               PROVE  /\ (\E j \in answer.shown : i < j) => i \in answer.shown
                      /\ (/\ Cardinality(Matching(answer.prefix)) <= Megabyte
                          /\ Cardinality(Matching(answer.prefix))
                               <= Smaller(answer.binding.max, answer.binding.page))
                           => i \in answer.shown
    BY DEF NoneWithheld
  <2>1. /\ answer.shown = Candidates(answer.binding, answer.prefix)
        /\ answer.binding \in Completing /\ answer.prefix \in 0 .. Typed
        /\ items \in [Position -> Item \cup {None}]
    BY DEF CompletionInv, CurrentInv, TypeOK, Current, Answer
  <2>2. ASSUME NEW j \in answer.shown, i < j PROVE i \in answer.shown
    <3>1. j \in Position /\ i \in Position
      BY <2>1, CandidatesType
    <3>2. i <= j
      BY <2>2, <3>1, SizeAssumption DEF Position
    <3>3. answer.prefix \in answer.prefix .. Typed
      BY <2>1, SizeAssumption
    <3> QED BY <2>1, <3>2, <3>3, CandidatesClosed
  <2> QED BY <2>1, <2>2, CandidatesAll
<1> QED BY <1>1, CompletionInvariant, PTL

\* A candidate is not lost by typing on.
THEOREM TypingOnKeeps == Spec => NarrowingKeeps
<1> DEFINE Kept ==
      [ /\ Reply /\ Current
        /\ answer.binding = call.binding /\ answer.prefix <= call.prefix
        => answer.shown \cap Matching(call.prefix) \subseteq answer'.shown ]_vars
<1>1. CompletionInv => Kept
  <2> SUFFICES ASSUME CompletionInv, Reply, Current,
                      answer.binding = call.binding, answer.prefix <= call.prefix,
                      NEW i \in answer.shown, i \in Matching(call.prefix)
               PROVE  i \in answer'.shown
    OBVIOUS
  <2>1. /\ answer.shown = Candidates(call.binding, answer.prefix)
        /\ call.binding \in Completing /\ answer.prefix \in 0 .. Typed
        /\ call.prefix \in 0 .. Typed
        /\ items \in [Position -> Item \cup {None}]
    BY DEF CompletionInv, CurrentInv, TypeOK, Current, Answer, Call, Reply
  <2>2. call.prefix \in answer.prefix .. Typed
    BY <2>1, SizeAssumption
  <2>3. i \in Position /\ items[i].valued
    BY <2>1, CandidatesType
  <2>4. i <= i
    BY <2>3, SizeAssumption DEF Position
  <2>5. i \in Candidates(call.binding, call.prefix)
    BY <2>1, <2>2, <2>3, <2>4, CandidatesClosed
  <2> QED BY <2>5 DEF Reply
<1> QED BY <1>1, CompletionInvariant, PTL DEF NarrowingKeeps
=============================================================================
