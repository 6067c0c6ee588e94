---------------------------- MODULE ValueProofs ----------------------------
(***************************************************************************)
(* The values that travel.  First those of a request's placeholders, for   *)
(* every width of integers and floats, every set of params and every       *)
(* caller.  Then items on their way through the marshaller, for all values *)
(* there are: every document a client sends, every item another program    *)
(* writes, however deep.                                                   *)
(***************************************************************************)
EXTENDS ExpressionValues, Marshal, WellFoundedInduction, TLAPS

-----------------------------------------------------------------------------
(* Numbers                                                                 *)

\* A set of natural numbers has a least one.
LEMMA LeastNumber ==
    ASSUME NEW T, T \subseteq Nat, T # {}
    PROVE  \E n \in T : \A m \in T : n <= m
<1>1. PICK n \in T : \A m \in T : ~ (<<m, n>> \in OpToRel(<, Nat))
  BY NatLessThanWellFounded, WFMin
<1>2. ASSUME NEW m \in T PROVE n <= m
  <2>1. m \in Nat /\ n \in Nat
    OBVIOUS
  <2>2. ~ (<<m, n>> \in OpToRel(<, Nat))
    BY <1>1
  <2>3. ~ (m < n)
    BY <2>1, <2>2 DEF OpToRel
  <2> QED BY <2>1, <2>3
<1> QED BY <1>2

\* There is an f64 nearest to a number.
LEMMA NearestIsFloat ==
    ASSUME NEW h \in Int PROVE Nearest(h) \in Floats
<1> DEFINE T == {Distance(f, h) : f \in Floats}
<1>1. T \subseteq Nat /\ T # {}
  BY FloatAssumption DEF Distance
<1>2. PICK d \in T : \A e \in T : d <= e
  <2> HIDE DEF T
  <2> QED BY <1>1, LeastNumber
<1>3. PICK f \in Floats : d = Distance(f, h)
  OBVIOUS
<1>4. ASSUME NEW g \in Floats PROVE Distance(f, h) <= Distance(g, h)
  <2>1. Distance(g, h) \in T
    OBVIOUS
  <2> QED BY <1>2, <1>3, <2>1
<1> QED BY <1>4 DEF Nearest

\* A float is nearest to itself.
LEMMA NearestToItself ==
    ASSUME NEW h \in Floats PROVE Nearest(h) = h
<1>1. h \in Int /\ \A g \in Floats : Distance(h, h) <= Distance(g, h)
  BY FloatAssumption DEF Distance
<1>2. Nearest(h) \in Floats /\ Distance(Nearest(h), h) <= Distance(h, h)
  BY <1>1 DEF Nearest
<1>3. \A n \in Int : Distance(n, h) <= Distance(h, h) => n = h
  BY <1>1 DEF Distance
<1> QED BY <1>2, <1>3, FloatAssumption

\* A number is no closer to another float than to the nearest.
LEMMA NearestIsNearest ==
    ASSUME NEW d \in Int, NEW g \in Floats
    PROVE  Distance(Nearest(d), d) <= Distance(g, d)
<1> DEFINE T == {Distance(f, d) : f \in Floats}
<1>1. T \subseteq Nat /\ T # {}
  BY FloatAssumption DEF Distance
<1>2. PICK n \in T : \A e \in T : n <= e
  <2> HIDE DEF T
  <2> QED BY <1>1, LeastNumber
<1>3. PICK f \in Floats : n = Distance(f, d)
  OBVIOUS
<1>4. \A e \in Floats : Distance(f, d) <= Distance(e, d)
  BY <1>2, <1>3
<1> QED BY <1>4 DEF Nearest

\* What is displayed is read back, and nothing that is read back is shorter,
\* or as short and closer.
LEMMA ShortestIs ==
    ASSUME NEW h \in Floats
    PROVE  /\ Shortest[h] \in ReadBack(h)
           /\ \A d \in ReadBack(h) :
                 /\ Length[Shortest[h]] <= Length[d]
                 /\ (\A e \in ReadBack(h) : Length[d] <= Length[e])
                       => Distance(Shortest[h], h) <= Distance(d, h)
<1> DEFINE brief == {d \in ReadBack(h) : \A e \in ReadBack(h) : Length[d] <= Length[e]}
           L == {Length[d] : d \in ReadBack(h)}
           R == {Distance(d, h) : d \in brief}
<1>1. h \in ReadBack(h) /\ ReadBack(h) \subseteq Decimals
  BY NearestToItself, DecimalAssumption DEF ReadBack
<1>2. brief # {}
  <2>1. L \subseteq Nat /\ L # {}
    BY <1>1, DecimalAssumption
  <2>2. PICK n \in L : \A m \in L : n <= m
    <3> HIDE DEF L
    <3> QED BY <2>1, LeastNumber
  <2>3. PICK d \in ReadBack(h) : n = Length[d]
    OBVIOUS
  <2>4. \A e \in ReadBack(h) : Length[d] <= Length[e]
    BY <2>2, <2>3
  <2> QED BY <2>4
<1>3. PICK closest \in brief : \A e \in brief : Distance(closest, h) <= Distance(e, h)
  <2>0. \A n \in Int : Distance(n, h) \in Nat
    BY FloatAssumption DEF Distance
  <2>1. R \subseteq Nat /\ R # {}
    BY <1>1, <1>2, <2>0, DecimalAssumption
  <2>2. PICK n \in R : \A m \in R : n <= m
    <3> HIDE DEF R
    <3> QED BY <2>1, LeastNumber
  <2>3. PICK c \in brief : n = Distance(c, h)
    OBVIOUS
  <2>4. \A e \in brief : Distance(c, h) <= Distance(e, h)
    BY <2>2, <2>3
  <2> QED BY <2>4
<1>4. Shortest[h] = CHOOSE d \in brief : \A e \in brief : Distance(d, h) <= Distance(e, h)
  BY DEF Shortest
<1>5. Shortest[h] \in brief /\ \A e \in brief : Distance(Shortest[h], h) <= Distance(e, h)
  <2> HIDE DEF brief
  <2> QED BY <1>3, <1>4
<1> QED BY <1>5

\* Where floats leave out no integer, an integer is displayed as itself: what is
\* read as it is at most a half away, and a fraction has no fewer digits.
LEMMA IntegersDisplayed ==
    ASSUME NEW h \in Floats, Consecutive(h) PROVE Shortest[h] = h
<1>1. h \in Int /\ h % 2 = 0 /\ h - 2 \in Floats /\ h + 2 \in Floats
  BY FloatAssumption DEF Consecutive
<1>2. ASSUME NEW d \in ReadBack(h) PROVE d \in {h - 1, h, h + 1}
  <2>1. d \in Int /\ Nearest(d) = h
    BY DecimalAssumption DEF ReadBack
  <2>2. Distance(h, d) <= Distance(h - 2, d) /\ Distance(h, d) <= Distance(h + 2, d)
    BY <1>1, <2>1, NearestIsNearest
  <2> QED BY <1>1, <2>1, <2>2 DEF Distance
<1>3. h \in ReadBack(h)
  BY NearestToItself, DecimalAssumption DEF ReadBack
<1>4. ASSUME NEW e \in ReadBack(h) PROVE Length[h] <= Length[e]
  <2>1. h \in Decimals /\ e \in Decimals /\ Length[h] \in Nat
    BY DecimalAssumption DEF ReadBack
  <2>2. CASE e = h
    BY <2>1, <2>2
  <2>3. CASE e # h
    BY <1>1, <1>2, <2>1, <2>3, DecimalAssumption
  <2> QED BY <2>2, <2>3
<1>5. Distance(Shortest[h], h) <= Distance(h, h)
  BY <1>3, <1>4, ShortestIs
<1>6. Shortest[h] \in Int
  BY ShortestIs, DecimalAssumption DEF ReadBack
<1> QED BY <1>1, <1>5, <1>6 DEF Distance

\* What format_n makes of a float is read as that float, and is that number
\* below the threshold, where the cast is exact, and below 2^53.
LEMMA FormatKeeps ==
    ASSUME NEW h \in Floats
    PROVE  \E number \in Decimals, point \in BOOLEAN :
              /\ FormatN(h) = Digits(number, point)
              /\ Nearest(number) = h
              /\ Consecutive(h) => number = h
<1>1. CASE h % 2 = 0 /\ -2 * Threshold < h /\ h < 2 * Threshold
  <2>1. h \div 2 \in Int /\ h = 2 * (h \div 2)
    BY <1>1, FloatAssumption
  <2>2. h \div 2 <= IntMax /\ -IntMax - 1 <= h \div 2
    BY <1>1, <2>1, WidthAssumption
  <2>3. AsInt(h \div 2) = h \div 2
    BY <2>1, <2>2, WidthAssumption DEF AsInt
  <2>4. FormatN(h) = Digits(h, FALSE)
    BY <1>1, <2>1, <2>3 DEF FormatN
  <2> QED BY <2>4, NearestToItself, DecimalAssumption
<1>2. CASE ~(h % 2 = 0 /\ -2 * Threshold < h /\ h < 2 * Threshold)
  <2>1. FormatN(h) = Digits(Shortest[h], TRUE)
    BY <1>2 DEF FormatN
  <2>2. Shortest[h] \in Decimals /\ Nearest(Shortest[h]) = h
    BY ShortestIs DEF ReadBack
  <2> QED BY <2>1, <2>2, IntegersDisplayed
<1> QED BY <1>1, <1>2

\* A float that a program gives is one.
LEMMA FloatResult ==
    ASSUME NEW program, NEW json \in Literals \cup {None},
           Execute(program, json)[1] = "float"
    PROVE  Execute(program, json)[2] \in Floats
<1>1. \A h \in Int : Nearest(h) \in Floats /\ Nearest(h) \in Int
  BY NearestIsFloat, FloatAssumption
<1>2. ASSUME NEW n \in Int
      PROVE  /\ NumberToCel(n)[1] \in {"int", "uint", "float"}
             /\ NumberToCel(n)[2] \in Int
             /\ NumberToCel(n)[1] = "float" => NumberToCel(n)[2] \in Floats
  BY <1>1 DEF NumberToCel
<1>3. CASE json = None
  BY <1>3 DEF Execute
<1>4. ASSUME json # None, JsonToCel(json)[1] \in {"int", "uint", "float"}
      PROVE  /\ JsonToCel(json)[2] \in Int
             /\ JsonToCel(json)[1] = "float" => JsonToCel(json)[2] \in Floats
  <2>1. json \in Literals
    BY <1>4
  <2>2. CASE json[1] = "integer"
    <3>1. json[2] \in Int
      BY <2>1, <2>2, LiteralAssumption
    <3>2. JsonToCel(json) = NumberToCel(json[2])
      BY <2>2 DEF JsonToCel
    <3> QED BY <1>2, <3>1, <3>2
  <2>3. CASE json[1] = "decimal"
    <3>1. json[2] \in Int
      BY <2>1, <2>3, LiteralAssumption
    <3>2. JsonToCel(json) = <<"float", Nearest(json[2])>>
      BY <2>3 DEF JsonToCel
    <3> QED BY <1>1, <3>1, <3>2
  <2>4. CASE json[1] \in {"null", "bool", "string", "list"}
    <3>1. JsonToCel(json) = json
      BY <2>4 DEF JsonToCel
    <3> QED BY <1>4, <2>4, <3>1
  <2>5. CASE json[1] \notin {"integer", "decimal", "null", "bool", "string", "list"}
    BY <2>1, <2>5, LiteralAssumption
  <2> QED BY <2>2, <2>3, <2>4, <2>5
<1>5. CASE json # None
  <2> DEFINE cel == JsonToCel(json)
  <2>1. CASE program = "argument"
    <3>1. Execute(program, json) = cel
      BY <1>5, <2>1 DEF Execute
    <3> QED BY <1>4, <1>5, <3>1
  <2>2. CASE program = "double" /\ cel[1] \in {"int", "uint"}
    <3>1. Execute(program, json) = <<"float", Nearest(2 * cel[2])>>
      BY <1>5, <2>2 DEF Execute
    <3> QED BY <1>1, <1>4, <1>5, <2>2, <3>1
  <2>3. CASE program = "double" /\ cel[1] = "float"
    <3>1. Execute(program, json) = cel
      BY <1>5, <2>3 DEF Execute
    <3> QED BY <1>4, <1>5, <2>3, <3>1
  <2>4. CASE /\ program # "argument"
             /\ ~(program = "double" /\ cel[1] \in {"int", "uint", "float"})
    <3>1. Execute(program, json)
            \in {<<"infinite">>, <<"string", "fixed">>, <<"error">>}
      BY <1>5, <2>4 DEF Execute
    <3> QED BY <3>1
  <2> QED BY <2>1, <2>2, <2>3, <2>4
<1> QED BY <1>3, <1>5

-----------------------------------------------------------------------------
(* The merge                                                               *)

LEMMA ValuesStep == ValuesInv /\ [Next]_vars => ValuesInv'
<1> SUFFICES ASSUME ValuesInv, [Next]_vars PROVE ValuesInv'
  OBVIOUS
<1> USE DEF ValuesInv
<1>1. pc' \in PCs /\ argument' \in Literals \cup {None}
  BY DEF Next, Call, Evaluate, Send, Answer, vars, PCs
<1>2. ResultsInv'
  <2>1. CASE Evaluate
    <3>1. params' = params /\ argument' = argument /\ Given' = Given
      BY <2>1 DEF Evaluate, Given
    <3>2. ASSUME pc' \in {"evaluated", "sent"}, NEW p \in Given
          PROVE  results'[p] = Execute(params[p], argument) /\ Scalar(results'[p])
      <4>1. p \in Placeholder /\ params[p] # None
        BY DEF Given
      <4>2. pc' = "evaluated"
        BY <2>1, <3>2 DEF Evaluate
      <4>3. \A q \in Given : Scalar(results'[q])
        BY <2>1, <4>2 DEF Evaluate
      <4> QED BY <2>1, <4>1, <4>3 DEF Evaluate
    <3> QED BY <3>1, <3>2 DEF ResultsInv
  <2>2. CASE Send
    BY <2>2 DEF ResultsInv, Send, Given
  <2>3. CASE Call \/ Answer
    BY <2>3 DEF ResultsInv, Call, Answer
  <2>4. CASE UNCHANGED vars
    BY <2>4 DEF ResultsInv, vars, Given
  <2> QED BY <2>1, <2>2, <2>3, <2>4 DEF Next
<1>3. SentInv'
  <2>1. CASE Send
    BY <2>1 DEF SentInv, Send, Given, GivenByCaller, Merge, Bound
  <2>2. CASE Call \/ Evaluate \/ Answer
    BY <2>2 DEF SentInv, Call, Evaluate, Answer
  <2>3. CASE UNCHANGED vars
    BY <2>3 DEF SentInv, vars, Given, GivenByCaller, Merge, Bound
  <2> QED BY <2>1, <2>2, <2>3 DEF Next
<1> QED BY <1>1, <1>2, <1>3

\* The inductive invariant: results are those of the binding's programs, and
\* the request has what the merge gives.
THEOREM ValuesInvariant == Spec => []ValuesInv
<1>1. Init => ValuesInv
  BY DEF Init, ValuesInv, PCs, ResultsInv, SentInv
<1> QED BY <1>1, ValuesStep, PTL DEF Spec

\* A placeholder of the params has the operator's value, in every request.
THEOREM CallerShadowsNone == Spec => []OperatorDecides
<1>1. ValuesInv => OperatorDecides
  <2> SUFFICES ASSUME ValuesInv, pc = "sent", NEW p \in Given
               PROVE  /\ Scalar(Execute(params[p], argument))
                      /\ Sent(p) = ToAttributeValue(Execute(params[p], argument))
    BY DEF OperatorDecides
  <2>1. results[p] = Execute(params[p], argument) /\ Scalar(results[p])
    BY DEF ValuesInv, ResultsInv
  <2>2. values.carried /\ values.map = Merge(Bound)
    <3>1. values = [carried |-> Given \cup GivenByCaller # {}, map |-> Merge(Bound)]
      BY DEF ValuesInv, SentInv
    <3>2. (Given \cup GivenByCaller # {}) = TRUE
      OBVIOUS
    <3> QED BY <3>1, <3>2
  <2>3. Merge(Bound)[p] = ToAttributeValue(results[p])
    BY DEF Merge, Bound, Given
  <2> QED BY <2>1, <2>2, <2>3 DEF Sent
<1> QED BY <1>1, ValuesInvariant, PTL

\* The caller's values for other placeholders arrive, and no others.
THEOREM CallerValuesArrive == Spec => []CallerDecidesTheRest
<1>1. ValuesInv => CallerDecidesTheRest
  <2> SUFFICES ASSUME ValuesInv, pc = "sent", NEW p \in Placeholder \ Given
               PROVE  Sent(p) = caller[p]
    BY DEF CallerDecidesTheRest
  <2>1. /\ values.carried = (Given \cup GivenByCaller # {})
        /\ values.map = Merge(Bound)
    BY DEF ValuesInv, SentInv
  <2>2. Merge(Bound)[p] = caller[p]
    BY DEF Merge
  <2>3. ~values.carried => caller[p] = None
    BY <2>1 DEF GivenByCaller
  <2> QED BY <2>1, <2>2, <2>3 DEF Sent
<1> QED BY <1>1, ValuesInvariant, PTL

\* Integers arrive as they were written, up to the largest u64.
THEOREM IntegersAreKept == Spec => []IntegersArrive
<1>1. OperatorDecides => IntegersArrive
  <2> SUFFICES ASSUME OperatorDecides, pc = "sent", NEW p \in Given,
                      NEW n \in -IntMax - 1 .. UIntMax,
                      params[p] = "argument", argument = <<"integer", n>>
               PROVE  Sent(p) = Digits(2 * n, FALSE)
    BY DEF IntegersArrive
  <2>0. argument # None
    BY NoneAssumption
  <2>1. NumberToCel(n) \in {<<"int", n>>, <<"uint", n>>}
    BY WidthAssumption DEF NumberToCel
  <2>2. Execute(params[p], argument) = NumberToCel(n)
    BY <2>0 DEF Execute, JsonToCel
  <2>3. ToAttributeValue(NumberToCel(n)) = Digits(2 * n, FALSE)
    <3>1. CASE NumberToCel(n) = <<"int", n>>
      BY <3>1 DEF ToAttributeValue
    <3>2. CASE NumberToCel(n) = <<"uint", n>>
      BY <3>2 DEF ToAttributeValue
    <3> QED BY <2>1, <3>1, <3>2
  <2> QED BY <2>2, <2>3 DEF OperatorDecides
<1> QED BY <1>1, CallerShadowsNone, PTL

\* Floats arrive as numbers that are read as the same float, and below 2^53
\* whole floats arrive as the integers they are.
THEOREM FloatsAreKept == Spec => []FloatsArrive
<1>1. ValuesInv /\ OperatorDecides => FloatsArrive
  <2> SUFFICES ASSUME ValuesInv, OperatorDecides, pc = "sent", NEW p \in Given,
                      results[p][1] = "float"
               PROVE  LET float  == results[p][2]
                          number == Sent(p)[2]
                      IN  /\ Sent(p)[1] = "N" /\ number \in Decimals
                          /\ Nearest(number) = float
                          /\ Consecutive(float) => number = float
    BY DEF FloatsArrive
  <2>1. results[p] = Execute(params[p], argument)
    BY DEF ValuesInv, ResultsInv
  <2>2. results[p][2] \in Floats
    BY <2>1, FloatResult DEF ValuesInv
  <2>3. Sent(p) = ToAttributeValue(results[p])
    BY <2>1 DEF OperatorDecides
  <2>4. ToAttributeValue(results[p]) = FormatN(results[p][2])
    BY DEF ToAttributeValue
  <2>5. PICK number \in Decimals, point \in BOOLEAN :
           /\ Sent(p) = Digits(number, point)
           /\ Nearest(number) = results[p][2]
           /\ Consecutive(results[p][2]) => number = results[p][2]
    BY <2>2, <2>3, <2>4, FormatKeeps
  <2>6. Sent(p)[1] = "N" /\ Sent(p)[2] = number
    BY <2>5 DEF Digits
  <2> QED BY <2>5, <2>6
<1> QED BY <1>1, ValuesInvariant, CallerShadowsNone, PTL

-----------------------------------------------------------------------------
(* Induction over values                                                   *)

\* Induction over the natural numbers, for a set of them.
LEMMA Climb ==
    ASSUME NEW S, 0 \in S, \A n \in Nat : n \in S => n + 1 \in S
    PROVE  Nat \subseteq S
<1> DEFINE T == Nat \ S
<1> SUFFICES ASSUME T # {} PROVE FALSE
  OBVIOUS
<1>1. PICK n \in T : \A m \in T : n <= m
  <2> HIDE DEF T
  <2>1. T \subseteq Nat
    BY DEF T
  <2> QED BY <2>1, LeastNumber
<1>2. n # 0 /\ n - 1 \in Nat /\ n - 1 < n
  OBVIOUS
<1>3. n - 1 \notin T
  BY <1>1, <1>2
<1>4. (n - 1) + 1 \in S
  BY <1>2, <1>3
<1> QED BY <1>2, <1>4

\* Induction over values: what holds of a value when it holds of the less deep
\* ones holds of all.
LEMMA Deepen ==
    ASSUME NEW V, NEW S, \A v \in V : Depth[v] \in 0 .. MaxDepth,
           \A v \in V : (\A w \in V : Depth[w] < Depth[v] => w \in S) => v \in S
    PROVE  V \subseteq S
<1> DEFINE T == {n \in Nat : \A v \in V : Depth[v] < n => v \in S}
<1>1. 0 \in T
  BY DepthAssumption
<1>2. ASSUME NEW n \in Nat, n \in T PROVE n + 1 \in T
  <2> SUFFICES ASSUME NEW v \in V, Depth[v] < n + 1 PROVE v \in S
    OBVIOUS
  <2>1. \A w \in V : Depth[w] < Depth[v] => w \in S
    BY <1>2, DepthAssumption
  <2> QED BY <2>1
<1>3. MaxDepth + 1 \in T
  <2> HIDE DEF T
  <2> QED BY <1>1, <1>2, Climb, DepthAssumption
<1> QED BY <1>3, DepthAssumption

-----------------------------------------------------------------------------
(* The conversions                                                         *)

\* A tagged value has one tag, and content under it.
LEMMA TaggedValue ==
    ASSUME NEW json \in Json, NEW tag \in DOMAIN Shape, TaggedBy(tag, json)
    PROVE  /\ json = Single(tag, json[2][tag])
           /\ json[2][tag] \in Json /\ Depth[json[2][tag]] < Depth[json]
           /\ json[2][tag] = <<Shape[tag], json[2][tag][2]>>
           /\ \A t \in DOMAIN Shape : TaggedBy(t, json) => t = tag
<1>1. json = <<"object", json[2]>> /\ json[2] = [i \in {tag} |-> json[2][i]]
  BY JsonAssumption DEF TaggedBy, HasParts
<1>2. json[2][tag] \in Json /\ Depth[json[2][tag]] < Depth[json]
  BY JsonAssumption DEF TaggedBy, HasParts
<1>3. json[2][tag] = <<Shape[tag], json[2][tag][2]>>
  BY <1>2, JsonAssumption DEF TaggedBy
<1>4. json = Single(tag, json[2][tag])
  BY <1>1 DEF Single
<1>5. \A t \in DOMAIN Shape : TaggedBy(t, json) => t = tag
  BY DEF TaggedBy
<1> QED BY <1>2, <1>3, <1>4, <1>5

\* The conversion of a tagged value.
LEMMA AvOfIs ==
    ASSUME NEW json \in Json, NEW tag \in DOMAIN Shape, TaggedBy(tag, json), NEW to
    PROVE  AvOf(json, to) = AvOfTagged(tag, json[2][tag][2], to)
<1>1. (CHOOSE t \in DOMAIN Shape : TaggedBy(t, json)) = tag
  BY TaggedValue
<1> QED BY <1>1 DEF AvOf

\* It depends on that of less deep values only.
LEMMA AvOfParts ==
    ASSUME NEW json \in Json, NEW f, NEW g,
           \A part \in Json : Depth[part] < Depth[json] => f[part] = g[part]
    PROVE  AvOf(json, f) = AvOf(json, g)
<1>1. CASE \E tag \in DOMAIN Shape : TaggedBy(tag, json)
  <2>1. PICK tag \in DOMAIN Shape : TaggedBy(tag, json)
    BY <1>1
  <2> DEFINE value == json[2][tag]
             content == value[2]
  <2>2. value \in Json /\ Depth[value] < Depth[json] /\ value[1] = Shape[tag]
    BY <2>1, TaggedValue DEF TaggedBy
  <2>3. AvOfTagged(tag, content, f) = AvOfTagged(tag, content, g)
    <3>1. CASE tag \in {"M", "L"}
      <4>1. value[1] \in {"object", "array"}
        BY <2>2, <3>1 DEF Shape
      <4>2. \A i \in DOMAIN content : content[i] \in Json /\ Depth[content[i]] < Depth[value]
        BY <2>2, <4>1, JsonAssumption DEF HasParts
      <4>3. /\ Depth[json] \in 0 .. MaxDepth /\ Depth[value] \in 0 .. MaxDepth
            /\ \A part \in Json : Depth[part] \in 0 .. MaxDepth
        BY <2>2, JsonAssumption
      <4>4. \A i \in DOMAIN content : f[content[i]] = g[content[i]]
        BY <2>2, <4>2, <4>3, DepthAssumption
      <4>5. Each(f, content) = Each(g, content)
        BY <4>4 DEF Each
      <4> QED BY <3>1, <4>5 DEF AvOfTagged
    <3>2. CASE tag \notin {"M", "L"}
      BY <3>2 DEF AvOfTagged, Shape
    <3> QED BY <3>1, <3>2
  <2> QED BY <2>1, <2>3, AvOfIs
<1>2. CASE ~\E tag \in DOMAIN Shape : TaggedBy(tag, json)
  BY <1>2 DEF AvOf
<1> QED BY <1>1, <1>2

\* There is such a conversion: json_to_av returns.
LEMMA JsonToAvIs ==
    \A json \in Json : JsonToAv[json] = AvOf(json, JsonToAv)
<1> DEFINE To(n, f) == \A json \in Json : Depth[json] < n => f[json] = AvOf(json, f)
           S == {n \in Nat : \E f : To(n, f)}
<1>0. \A json \in Json : Depth[json] \in 0 .. MaxDepth
  BY JsonAssumption
<1>1. 0 \in S
  BY <1>0, DepthAssumption
<1>2. ASSUME NEW n \in Nat, n \in S PROVE n + 1 \in S
  <2>1. PICK f : To(n, f)
    BY <1>2
  <2> DEFINE h == [json \in Json |-> AvOf(json, f)]
  <2>2. ASSUME NEW json \in Json, Depth[json] < n + 1
        PROVE  h[json] = AvOf(json, h)
    <3>1. \A part \in Json : Depth[part] < Depth[json] => f[part] = h[part]
      BY <1>0, <2>1, <2>2, DepthAssumption
    <3>2. AvOf(json, f) = AvOf(json, h)
      <4> HIDE DEF h
      <4> QED BY <3>1, AvOfParts
    <3> QED BY <3>2
  <2>3. To(n + 1, h)
    BY <2>2
  <2> HIDE DEF h
  <2> QED BY <2>3
<1>3. MaxDepth + 1 \in S
  <2> HIDE DEF S
  <2> QED BY <1>1, <1>2, Climb, DepthAssumption
<1>4. PICK f : To(MaxDepth + 1, f)
  BY <1>3
<1> DEFINE g == [json \in Json |-> f[json]]
<1>5. ASSUME NEW json \in Json PROVE g[json] = AvOf(json, g)
  <2>1. AvOf(json, f) = AvOf(json, g)
    <3>1. \A part \in Json : f[part] = g[part]
      OBVIOUS
    <3> HIDE DEF g
    <3> QED BY <3>1, AvOfParts
  <2>2. f[json] = AvOf(json, f)
    BY <1>0, <1>4, DepthAssumption
  <2> QED BY <2>1, <2>2
<1>6. g = [json \in Json |-> AvOf(json, g)]
  BY <1>5
<1>7. JsonToAv = [json \in Json |-> AvOf(json, JsonToAv)]
  <2> HIDE DEF g
  <2> QED BY <1>6 DEF JsonToAv
<1> QED BY <1>7

\* What is made of an attribute value depends on what is made of less deep ones.
LEMMA OfParts ==
    ASSUME NEW av \in Av, NEW f, NEW g,
           \A part \in Av : Depth[part] < Depth[av] => f[part] = g[part]
    PROVE  /\ JsonOf(av, f) = JsonOf(av, g)
           /\ StoredOf(av, f) = StoredOf(av, g)
           /\ KnownIf(av, f) = KnownIf(av, g)
<1>1. CASE av[1] \in {"M", "L"}
  <2>1. \A i \in DOMAIN av[2] : f[av[2][i]] = g[av[2][i]]
    BY <1>1, AvAssumption DEF HasParts
  <2>2. Each(f, av[2]) = Each(g, av[2])
    BY <2>1 DEF Each
  <2>3. JsonOf(av, f) = JsonOf(av, g)
    BY <1>1, <2>2 DEF JsonOf
  <2>4. StoredOf(av, f) = StoredOf(av, g)
    BY <1>1, <2>2 DEF StoredOf
  <2>5. KnownIf(av, f) = KnownIf(av, g)
    BY <2>1 DEF KnownIf
  <2> QED BY <2>3, <2>4, <2>5
<1>2. CASE av[1] \notin {"M", "L"}
  <2>1. JsonOf(av, f) = JsonOf(av, g)
    BY <1>2 DEF JsonOf
  <2>2. StoredOf(av, f) = StoredOf(av, g)
    BY <1>2 DEF StoredOf
  <2>3. KnownIf(av, f) = KnownIf(av, g)
    BY <1>2 DEF KnownIf
  <2> QED BY <2>1, <2>2, <2>3
<1> QED BY <1>1, <1>2

\* There are such functions: av_to_json returns, and so do the two that DynamoDB
\* and the SDK stand for.
LEMMA AvFunctionsAre ==
    \A av \in Av : /\ AvToJson[av] = JsonOf(av, AvToJson)
                  /\ AsStored[av] = StoredOf(av, AsStored)
                  /\ Known[av] = KnownIf(av, Known)
<1> DEFINE Upto(n, f, g, k) ==
             \A av \in Av : Depth[av] < n => /\ f[av] = JsonOf(av, f)
                                           /\ g[av] = StoredOf(av, g)
                                           /\ k[av] = KnownIf(av, k)
           S == {n \in Nat : \E f, g, k : Upto(n, f, g, k)}
<1>0. \A av \in Av : Depth[av] \in 0 .. MaxDepth
  BY AvAssumption
<1>1. 0 \in S
  BY <1>0, DepthAssumption
<1>2. ASSUME NEW n \in Nat, n \in S PROVE n + 1 \in S
  <2>1. PICK f, g, k : Upto(n, f, g, k)
    BY <1>2
  <2> DEFINE f1 == [av \in Av |-> JsonOf(av, f)]
             g1 == [av \in Av |-> StoredOf(av, g)]
             k1 == [av \in Av |-> KnownIf(av, k)]
  <2>2. ASSUME NEW av \in Av, Depth[av] < n + 1
        PROVE  /\ f1[av] = JsonOf(av, f1)
               /\ g1[av] = StoredOf(av, g1)
               /\ k1[av] = KnownIf(av, k1)
    <3>1. \A part \in Av : Depth[part] < Depth[av] =>
             f[part] = f1[part] /\ g[part] = g1[part] /\ k[part] = k1[part]
      BY <1>0, <2>1, <2>2, DepthAssumption
    <3>2. f1[av] = JsonOf(av, f) /\ g1[av] = StoredOf(av, g) /\ k1[av] = KnownIf(av, k)
      OBVIOUS
    <3> HIDE DEF f1, g1, k1
    <3>3. JsonOf(av, f) = JsonOf(av, f1)
      BY <3>1, OfParts
    <3>4. StoredOf(av, g) = StoredOf(av, g1)
      BY <3>1, OfParts
    <3>5. KnownIf(av, k) = KnownIf(av, k1)
      BY <3>1, OfParts
    <3> QED BY <3>2, <3>3, <3>4, <3>5
  <2>3. Upto(n + 1, f1, g1, k1)
    BY <2>2
  <2> HIDE DEF f1, g1, k1
  <2> QED BY <2>3
<1>3. MaxDepth + 1 \in S
  <2> HIDE DEF S
  <2> QED BY <1>1, <1>2, Climb, DepthAssumption
<1>4. PICK f, g, k : Upto(MaxDepth + 1, f, g, k)
  BY <1>3
<1> DEFINE f1 == [av \in Av |-> f[av]]
           g1 == [av \in Av |-> g[av]]
           k1 == [av \in Av |-> k[av]]
<1>5. ASSUME NEW av \in Av
      PROVE  /\ f1[av] = JsonOf(av, f1)
             /\ g1[av] = StoredOf(av, g1)
             /\ k1[av] = KnownIf(av, k1)
  <2>1. \A part \in Av : f[part] = f1[part] /\ g[part] = g1[part] /\ k[part] = k1[part]
    OBVIOUS
  <2>2. f[av] = JsonOf(av, f) /\ g[av] = StoredOf(av, g) /\ k[av] = KnownIf(av, k)
    BY <1>0, <1>4, DepthAssumption
  <2> HIDE DEF f1, g1, k1
  <2>3. JsonOf(av, f) = JsonOf(av, f1)
    BY <2>1, OfParts
  <2>4. StoredOf(av, g) = StoredOf(av, g1)
    BY <2>1, OfParts
  <2>5. KnownIf(av, k) = KnownIf(av, k1)
    BY <2>1, OfParts
  <2> QED BY <2>1, <2>2, <2>3, <2>4, <2>5
<1>6. /\ f1 = [av \in Av |-> JsonOf(av, f1)]
      /\ g1 = [av \in Av |-> StoredOf(av, g1)]
      /\ k1 = [av \in Av |-> KnownIf(av, k1)]
  BY <1>5
<1> HIDE DEF f1, g1, k1
<1>7. AvToJson = [av \in Av |-> JsonOf(av, AvToJson)]
  BY <1>6 DEF AvToJson
<1>8. AsStored = [av \in Av |-> StoredOf(av, AsStored)]
  BY <1>6 DEF AsStored
<1>9. Known = [av \in Av |-> KnownIf(av, Known)]
  BY <1>6 DEF Known
<1> QED BY <1>7, <1>8, <1>9

-----------------------------------------------------------------------------
(* Texts                                                                   *)

\* A text that is read and shown again is the same text.
LEMMA TextsKept ==
    ASSUME NEW tag \in {"S", "N", "B"}, NEW text, Admits(tag, text)
    PROVE  Encoded(tag, Decoded(tag, text)) = text
<1>1. CASE tag = "B"
  <2>1. text \in DOMAIN Bytes
    BY <1>1 DEF Admits
  <2>2. \A x, y \in DOMAIN Bytes : Bytes[x] = Bytes[y] => x = y
    BY DEF Bytes
  <2>3. (CHOOSE x \in DOMAIN Bytes : Bytes[x] = Bytes[text]) = text
    <3> HIDE DEF Bytes
    <3> QED BY <2>1, <2>2
  <2> QED BY <1>1, <2>3 DEF Encoded, Decoded
<1>2. CASE tag # "B"
  BY <1>2 DEF Encoded, Decoded
<1> QED BY <1>1, <1>2

\* Bytes are shown as a text that stands for them.
LEMMA BytesKept ==
    ASSUME NEW content \in Range(Bytes)
    PROVE  Admits("B", Encoded("B", content))
           /\ Decoded("B", Encoded("B", content)) = content
<1>1. \E x \in DOMAIN Bytes : Bytes[x] = content
  BY DEF Range
<1>2. PICK x \in DOMAIN Bytes : x = Encoded("B", content) /\ Bytes[x] = content
  <2> HIDE DEF Bytes
  <2> QED BY <1>1 DEF Encoded
<1> QED BY <1>2 DEF Admits, Decoded

\* Converting the parts fails on the first that does not convert.
LEMMA WholeIs ==
    ASSUME NEW tag, NEW parts, Whole(tag, parts) # Nothing
    PROVE  /\ Whole(tag, parts) = <<tag, parts>>
           /\ \A i \in DOMAIN parts : parts[i] # Nothing
BY DEF Whole

\* What is made of a value is not nothing, unless a part is.
LEMMA NothingIs ==
    ASSUME NEW x, NEW y PROVE <<x, y>> # Nothing
BY DEF Nothing

-----------------------------------------------------------------------------
(* There and back                                                          *)

\* json_to_av loses nothing: av_to_json shows what it was made of.
LEMMA ShownAsGiven ==
    \A json \in Json : JsonToAv[json] # Nothing => AvToJson[JsonToAv[json]] = json
<1> DEFINE S == {json \in Json : JsonToAv[json] # Nothing
                                    => AvToJson[JsonToAv[json]] = json}
<1>1. ASSUME NEW json \in Json, \A part \in Json : Depth[part] < Depth[json] => part \in S,
             JsonToAv[json] # Nothing
      PROVE  AvToJson[JsonToAv[json]] = json
  <2> DEFINE av == JsonToAv[json]
  <2>1. PICK tag \in DOMAIN Shape : TaggedBy(tag, json)
    BY <1>1, JsonToAvIs DEF AvOf
  <2> DEFINE value == json[2][tag]
             content == value[2]
  <2>2. /\ json = Single(tag, value)
        /\ value \in Json /\ Depth[value] < Depth[json]
        /\ value = <<Shape[tag], content>>
    BY <2>1, TaggedValue
  <2>3. av = AvOfTagged(tag, content, JsonToAv) /\ av \in Av
    BY <1>1, <2>1, AvOfIs, JsonToAvIs, ClosureAssumption
  <2>4. AvToJson[av] = JsonOf(av, AvToJson)
    BY <2>3, AvFunctionsAre
  <2>5. av # Nothing
    BY <1>1
  <2> HIDE DEF av
  <2>6. CASE tag \in {"BOOL", "NULL"}
    <3>1. av = <<tag, content>>
      BY <2>3, <2>6 DEF AvOfTagged
    <3>2. JsonOf(av, AvToJson) = Single(tag, <<"bool", content>>)
      BY <2>6, <3>1 DEF JsonOf, NullFlag
    <3> QED BY <2>2, <2>4, <2>6, <3>2 DEF Shape, av
  <2>7. CASE tag \in {"S", "N", "B"}
    <3>1. av = <<tag, Decoded(tag, content)>> /\ Admits(tag, content)
      BY <2>3, <2>5, <2>7 DEF AvOfTagged
    <3>2. JsonOf(av, AvToJson) = Single(tag, <<"string", content>>)
      BY <2>7, <3>1, TextsKept DEF JsonOf
    <3> QED BY <2>2, <2>4, <2>7, <3>2 DEF Shape, av
  <2>8. CASE tag \in {"SS", "NS", "BS"}
    <3>1. /\ av = <<tag, [i \in DOMAIN content |->
                            Decoded(ElementTag[tag], content[i][2])]>>
          /\ TextsOk(tag, content)
      BY <2>3, <2>5, <2>8 DEF AvOfTagged
    <3>2. /\ content = [i \in DOMAIN content |-> content[i]]
          /\ \A i \in DOMAIN content : content[i] = <<content[i][1], content[i][2]>>
      <4>1. HasParts(value, Json)
        BY <2>2, <2>8, JsonAssumption DEF Shape
      <4>2. \A i \in DOMAIN content : content[i] \in Json
        BY <4>1 DEF HasParts
      <4>3. \A i \in DOMAIN content : content[i] = <<content[i][1], content[i][2]>>
        BY <4>2, JsonAssumption
      <4> QED BY <4>1, <4>3 DEF HasParts
    <3>3. ElementTag[tag] \in {"S", "N", "B"}
      BY <2>8 DEF ElementTag
    <3>4. \A i \in DOMAIN content :
             <<"string", Encoded(ElementTag[tag], Decoded(ElementTag[tag], content[i][2]))>>
               = content[i]
      BY <3>1, <3>2, <3>3, TextsKept DEF TextsOk
    <3>5. JsonOf(av, AvToJson) = Single(tag, <<"array",
             [i \in DOMAIN content |->
                <<"string", Encoded(ElementTag[tag],
                                    Decoded(ElementTag[tag], content[i][2]))>>]>>)
      BY <2>8, <3>1 DEF JsonOf
    <3>6. JsonOf(av, AvToJson) = Single(tag, <<"array", content>>)
      BY <3>2, <3>4, <3>5
    <3> QED BY <2>2, <2>4, <2>8, <3>6 DEF Shape, av
  <2>9. CASE tag \in {"M", "L"}
    <3>1. /\ av = <<tag, Each(JsonToAv, content)>>
          /\ \A i \in DOMAIN content : JsonToAv[content[i]] # Nothing
      <4>1. av = Whole(tag, Each(JsonToAv, content))
        BY <2>3, <2>9 DEF AvOfTagged
      <4> QED BY <2>5, <4>1, WholeIs DEF Each
    <3>2. HasParts(value, Json)
      BY <2>2, <2>9, JsonAssumption DEF Shape
    <3>3. \A i \in DOMAIN content : AvToJson[JsonToAv[content[i]]] = content[i]
      <4> SUFFICES ASSUME NEW i \in DOMAIN content
                   PROVE  AvToJson[JsonToAv[content[i]]] = content[i]
        OBVIOUS
      <4>1. content[i] \in Json /\ Depth[content[i]] < Depth[value]
        BY <3>2 DEF HasParts
      <4>2. /\ Depth[json] \in Nat /\ Depth[value] \in Nat
            /\ Depth[content[i]] \in Nat
        BY <2>2, <4>1, JsonAssumption, DepthAssumption
      <4>3. Depth[content[i]] < Depth[json]
        BY <2>2, <4>1, <4>2
      <4>4. content[i] \in S
        BY <1>1, <4>1, <4>3
      <4> QED BY <3>1, <4>4
    <3>4. Each(AvToJson, Each(JsonToAv, content)) = content
      BY <3>2, <3>3 DEF Each, HasParts
    <3>5. JsonOf(av, AvToJson) = Single(tag, <<Shape[tag], content>>)
      BY <2>9, <3>1, <3>4 DEF JsonOf, Shape
    <3> QED BY <2>2, <2>4, <3>5 DEF av
  <2> QED BY <2>6, <2>7, <2>8, <2>9 DEF Shape
<1>2. Json \subseteq S
  <2>1. \A json \in Json : (\A part \in Json : Depth[part] < Depth[json] => part \in S)
                              => json \in S
    BY <1>1
  <2> HIDE DEF S
  <2> QED BY <2>1, JsonAssumption, Deepen
<1> QED BY <1>2

\* What DynamoDB stores stays as it is when it is stored again.
LEMMA StoredStays ==
    \A av \in Av : AsStored[av] # Nothing => AsStored[AsStored[av]] = AsStored[av]
<1> DEFINE S == {av \in Av : AsStored[av] # Nothing
                                => AsStored[AsStored[av]] = AsStored[av]}
<1>1. ASSUME NEW av \in Av, \A part \in Av : Depth[part] < Depth[av] => part \in S,
             AsStored[av] # Nothing
      PROVE  AsStored[AsStored[av]] = AsStored[av]
  <2> DEFINE tag == av[1]
             content == av[2]
             s == AsStored[av]
  <2>1. /\ s = StoredOf(av, AsStored) /\ s \in Av
        /\ AsStored[s] = StoredOf(s, AsStored)
    BY <1>1, AvFunctionsAre, ClosureAssumption
  <2>2. s # Nothing
    BY <1>1
  <2>3. CASE s = av
    BY <2>3
  <2> HIDE DEF s
  <2>4. CASE tag = "N"
    <3>1. s = <<"N", Normal(content)>> /\ content \in NumberTexts
      BY <2>1, <2>2, <2>4 DEF StoredOf
    <3>2. Normal(content) \in NumberTexts /\ Normal(Normal(content)) = Normal(content)
      BY <3>1 DEF Normal, NumberTexts, FloatTexts
    <3>3. StoredOf(s, AsStored) = s
      BY <3>1, <3>2 DEF StoredOf
    <3> QED BY <2>1, <3>3 DEF s
  <2>5. CASE tag = "NS"
    <3>1. /\ s = <<"NS", [i \in DOMAIN content |-> Normal(content[i])]>>
          /\ DOMAIN content # {} /\ Distinct(content)
          /\ Range(content) \subseteq NumberTexts
      BY <2>1, <2>2, <2>5 DEF StoredOf
    <3>2. \A i \in DOMAIN content : /\ Normal(content[i]) \in NumberTexts
                                    /\ Normal(Normal(content[i])) = Normal(content[i])
      BY <3>1 DEF Normal, NumberTexts, FloatTexts, Range
    <3> DEFINE norms == [i \in DOMAIN content |-> Normal(content[i])]
    <3>3. /\ DOMAIN norms # {} /\ Distinct(norms) /\ Range(norms) \subseteq NumberTexts
          /\ [i \in DOMAIN norms |-> Normal(norms[i])] = norms
      BY <3>1, <3>2 DEF Distinct, Range
    <3>4. StoredOf(s, AsStored) = s
      <4> HIDE DEF norms
      <4>1. s = <<"NS", norms>>
        BY <3>1 DEF norms
      <4> QED BY <3>3, <4>1 DEF StoredOf
    <3> QED BY <2>1, <3>4 DEF s
  <2>6. CASE tag \in {"M", "L"}
    <3>1. /\ s = <<tag, Each(AsStored, content)>>
          /\ \A i \in DOMAIN content : AsStored[content[i]] # Nothing
      <4>1. s = Whole(tag, Each(AsStored, content))
        BY <2>1, <2>6 DEF StoredOf
      <4> QED BY <2>2, <4>1, WholeIs DEF Each
    <3>2. \A i \in DOMAIN content : content[i] \in S
      BY <1>1, <2>6, AvAssumption DEF HasParts
    <3>3. \A i \in DOMAIN content : AsStored[AsStored[content[i]]] = AsStored[content[i]]
      BY <3>1, <3>2
    <3> DEFINE parts == Each(AsStored, content)
    <3>4. Each(AsStored, parts) = parts /\ \A i \in DOMAIN parts : parts[i] # Nothing
      BY <3>1, <3>3 DEF Each
    <3>5. StoredOf(s, AsStored) = s
      <4> HIDE DEF parts
      <4>1. s = <<tag, parts>>
        BY <3>1 DEF parts
      <4> QED BY <2>6, <3>4, <4>1 DEF StoredOf, Whole
    <3> QED BY <2>1, <3>5 DEF s
  <2>7. CASE tag \notin {"N", "NS", "M", "L"}
    <3>1. s = av
      BY <2>1, <2>2, <2>7 DEF StoredOf
    <3> QED BY <2>3, <3>1
  <2> QED BY <2>4, <2>5, <2>6, <2>7 DEF s
<1>2. Av \subseteq S
  <2>1. \A av \in Av : (\A part \in Av : Depth[part] < Depth[av] => part \in S)
                          => av \in S
    BY <1>1
  <2> HIDE DEF S
  <2> QED BY <2>1, AvAssumption, Deepen
<1> QED BY <1>2

\* What json_to_av makes of a tagged value.
LEMMA ReadAs ==
    ASSUME NEW tag \in DOMAIN Shape, NEW content, NEW json \in Json,
           json = Single(tag, <<Shape[tag], content>>)
    PROVE  JsonToAv[json] = AvOfTagged(tag, content, JsonToAv)
<1>1. TaggedBy(tag, json) /\ json[2][tag][2] = content
  BY DEF TaggedBy, Single
<1> QED BY <1>1, AvOfIs, JsonToAvIs

\* How a set is shown: as the array of its values.
LEMMA SetShown ==
    ASSUME NEW av, av[1] \in {"SS", "NS", "BS"}, NEW to
    PROVE  JsonOf(av, to) =
             Single(av[1], <<"array",
                [i \in DOMAIN av[2] |->
                    <<"string", Encoded(ElementTag[av[1]], av[2][i])>>]>>)
BY DEF JsonOf, Shape

\* A stored value that is shown and read again is one that DynamoDB stores, and
\* the same one if the SDK knows its types.
LEMMA EchoIs ==
    \A av \in Av :
        AsStored[av] = av =>
            /\ JsonToAv[AvToJson[av]] # Nothing
            /\ AsStored[JsonToAv[AvToJson[av]]] # Nothing
            /\ Known[av] => JsonToAv[AvToJson[av]] = av
<1> DEFINE Echoed(av) == /\ JsonToAv[AvToJson[av]] # Nothing
                         /\ AsStored[JsonToAv[AvToJson[av]]] # Nothing
                         /\ Known[av] => JsonToAv[AvToJson[av]] = av
           S == {av \in Av : AsStored[av] = av => Echoed(av)}
<1>1. ASSUME NEW av \in Av, \A part \in Av : Depth[part] < Depth[av] => part \in S,
             AsStored[av] = av
      PROVE  Echoed(av)
  <2> DEFINE tag == av[1]
             content == av[2]
             json == AvToJson[av]
             back == JsonToAv[json]
  <2>1. /\ json = JsonOf(av, AvToJson) /\ json \in Json
        /\ StoredOf(av, AsStored) = av
        /\ av = <<tag, content>> /\ av # Nothing
    BY <1>1, AvFunctionsAre, ClosureAssumption, AvAssumption
  <2>2. ASSUME back = av PROVE Echoed(av)
    BY <1>1, <2>1, <2>2
  <2> HIDE DEF json
  <2>3. CASE tag \in {"BOOL", "NULL"}
    <3>1. json = Single(tag, <<Shape[tag], content>>)
      BY <2>1, <2>3 DEF JsonOf, NullFlag, Shape
    <3>2. tag \in DOMAIN Shape
      BY <2>3 DEF Shape
    <3>3. back = AvOfTagged(tag, content, JsonToAv)
      BY <2>1, <3>1, <3>2, ReadAs
    <3>4. back = av
      BY <2>1, <2>3, <3>3 DEF AvOfTagged
    <3> QED BY <2>2, <3>4
  <2>4. CASE tag \in {"S", "N", "B"}
    <3>1. json = Single(tag, <<Shape[tag], Encoded(tag, content)>>)
      BY <2>1, <2>4 DEF JsonOf, Shape
    <3>2. tag \in DOMAIN Shape
      BY <2>4 DEF Shape
    <3>3. back = AvOfTagged(tag, Encoded(tag, content), JsonToAv)
      BY <2>1, <3>1, <3>2, ReadAs
    <3>4. /\ Admits(tag, Encoded(tag, content))
          /\ Decoded(tag, Encoded(tag, content)) = content
      <4>1. CASE tag = "S"
        BY <4>1 DEF Admits, Encoded, Decoded
      <4>2. CASE tag = "N"
        <5>1. content \in NumberTexts
          BY <2>1, <4>2 DEF StoredOf
        <5> QED BY <4>2, <5>1 DEF Admits, Encoded, Decoded, NumberTexts
      <4>3. CASE tag = "B"
        <5>1. content \in Range(Bytes)
          BY <4>3, AvAssumption
        <5> QED BY <4>3, <5>1, BytesKept
      <4> QED BY <2>4, <4>1, <4>2, <4>3
    <3>5. back = av
      BY <2>1, <2>4, <3>3, <3>4 DEF AvOfTagged
    <3> QED BY <2>2, <3>5
  <2>5. CASE tag \in {"SS", "NS", "BS"}
    <3> DEFINE el == ElementTag[tag]
               texts == [i \in DOMAIN content |-> <<"string", Encoded(el, content[i])>>]
    <3>1. json = Single(tag, <<Shape[tag], texts>>)
      <4>1. JsonOf(av, AvToJson) = Single(tag, <<"array", texts>>)
        BY <2>5, SetShown
      <4>2. Shape[tag] = "array"
        BY <2>5 DEF Shape
      <4> QED BY <2>1, <4>1, <4>2
    <3>2. tag \in DOMAIN Shape
      BY <2>5 DEF Shape
    <3>3. back = AvOfTagged(tag, texts, JsonToAv)
      <4> HIDE DEF texts
      <4> QED BY <2>1, <3>1, <3>2, ReadAs
    <3>4. \A i \in DOMAIN content :
             /\ Admits(el, Encoded(el, content[i]))
             /\ Decoded(el, Encoded(el, content[i])) = content[i]
      <4>1. CASE tag = "SS"
        BY <4>1 DEF Admits, Encoded, Decoded, ElementTag
      <4>2. CASE tag = "NS"
        <5>1. Range(content) \subseteq NumberTexts
          BY <2>1, <4>2 DEF StoredOf
        <5>2. \A i \in DOMAIN content : content[i] \in FloatTexts
          BY <5>1 DEF Range, NumberTexts
        <5> QED BY <4>2, <5>2 DEF Admits, Encoded, Decoded, ElementTag
      <4>3. CASE tag = "BS"
        <5>1. \A i \in DOMAIN content : content[i] \in Range(Bytes)
          BY <4>3, AvAssumption DEF Range
        <5>2. el = "B"
          BY <4>3 DEF ElementTag
        <5> HIDE DEF el
        <5> QED BY <5>1, <5>2, BytesKept
      <4> QED BY <2>5, <4>1, <4>2, <4>3
    <3>5. TextsOk(tag, texts)
      BY <3>4 DEF TextsOk
    <3>6. content = [i \in DOMAIN content |-> content[i]]
      BY <2>5, AvAssumption
    <3>7. [i \in DOMAIN texts |-> Decoded(el, texts[i][2])] = content
      <4>1. DOMAIN texts = DOMAIN content
            /\ \A i \in DOMAIN content : texts[i][2] = Encoded(el, content[i])
        OBVIOUS
      <4> HIDE DEF texts, el
      <4> QED BY <3>4, <3>6, <4>1
    <3>8. back = <<tag, [i \in DOMAIN texts |-> Decoded(el, texts[i][2])]>>
      <4> HIDE DEF texts
      <4> QED BY <2>5, <3>3, <3>5 DEF AvOfTagged
    <3>9. back = av
      BY <2>1, <3>7, <3>8
    <3> QED BY <2>2, <3>9
  <2>6. CASE tag \in {"M", "L"}
    <3> DEFINE shown == Each(AvToJson, content)
               read  == Each(JsonToAv, shown)
    <3>1. json = Single(tag, <<Shape[tag], shown>>)
      BY <2>1, <2>6 DEF JsonOf, Shape
    <3>2. tag \in DOMAIN Shape
      BY <2>6 DEF Shape
    <3>3. back = Whole(tag, read)
      <4>1. back = AvOfTagged(tag, shown, JsonToAv)
        <5> HIDE DEF shown
        <5> QED BY <2>1, <3>1, <3>2, ReadAs
      <4> QED BY <2>6, <4>1 DEF AvOfTagged
    <3>4. HasParts(av, Av)
      BY <2>6, AvAssumption
    <3>5. Whole(tag, Each(AsStored, content)) = av
      BY <2>1, <2>6 DEF StoredOf
    <3>6. Each(AsStored, content) = content
      BY <2>1, <3>5, WholeIs
    <3>7. \A i \in DOMAIN content : Echoed(content[i])
      <4> SUFFICES ASSUME NEW i \in DOMAIN content PROVE Echoed(content[i])
        OBVIOUS
      <4>1. content[i] \in S
        BY <1>1, <3>4 DEF HasParts
      <4>2. AsStored[content[i]] = content[i]
        BY <3>6 DEF Each
      <4> QED BY <4>1, <4>2
    <3>8. /\ DOMAIN read = DOMAIN content
          /\ \A i \in DOMAIN content : read[i] = JsonToAv[AvToJson[content[i]]]
      BY DEF Each
    <3> HIDE DEF read
    <3>9. back = <<tag, read>> /\ back # Nothing
      BY <3>3, <3>7, <3>8, NothingIs DEF Whole
    <3>10. AsStored[back] # Nothing
      <4>1. back \in Av
        BY <2>1, <3>9, ClosureAssumption
      <4>2. AsStored[back] = Whole(tag, Each(AsStored, read))
        <5>1. AsStored[back] = StoredOf(back, AsStored)
          BY <4>1, AvFunctionsAre
        <5>2. back[1] = tag /\ back[2] = read
          BY <3>9
        <5> HIDE DEF back
        <5> QED BY <2>6, <5>1, <5>2 DEF StoredOf
      <4>3. \A i \in DOMAIN read : AsStored[read[i]] # Nothing
        BY <3>7, <3>8
      <4> QED BY <4>2, <4>3, NothingIs DEF Whole, Each
    <3>11. ASSUME Known[av] PROVE back = av
      <4>1. \A i \in DOMAIN content : Known[content[i]]
        BY <2>6, <3>11, AvFunctionsAre DEF KnownIf
      <4>2. \A i \in DOMAIN content : read[i] = content[i]
        BY <3>7, <3>8, <4>1
      <4>3. content = [i \in DOMAIN content |-> content[i]]
        BY <3>4 DEF HasParts
      <4>4. read = [i \in DOMAIN content |-> read[i]]
        BY <3>8 DEF read, Each
      <4>5. read = content
        BY <4>2, <4>3, <4>4
      <4> QED BY <2>1, <3>9, <4>5
    <3> QED BY <3>9, <3>10, <3>11 DEF json
  <2>7. CASE tag \notin DOMAIN Shape
    <3>1. json = Single("NULL", <<Shape["NULL"], TRUE>>)
      BY <2>1, <2>7 DEF JsonOf, Shape
    <3>2. back = <<"NULL", TRUE>>
      BY <2>1, <3>1, ReadAs DEF AvOfTagged, Shape
    <3>3. back # Nothing /\ back \in Av
      BY <2>1, <3>2, NothingIs, ClosureAssumption
    <3>4. AsStored[back] = back
      BY <3>2, <3>3, AvFunctionsAre DEF StoredOf
    <3>5. ~ Known[av]
      BY <2>7, AvFunctionsAre DEF KnownIf
    <3> QED BY <3>3, <3>4, <3>5 DEF json
  <2> QED BY <2>3, <2>4, <2>5, <2>6, <2>7 DEF Shape
<1>2. Av \subseteq S
  <2>1. \A av \in Av : (\A part \in Av : Depth[part] < Depth[av] => part \in S)
                          => av \in S
    BY <1>1
  <2> HIDE DEF S
  <2> QED BY <2>1, AvAssumption, Deepen
<1> QED BY <1>2

-----------------------------------------------------------------------------
(* Items                                                                   *)

\* A document that converts is shown again as it was.
LEMMA DocumentShown ==
    ASSUME NEW json, IsDocument(json), JsonToItem(json) # Nothing
    PROVE  ItemToJson(JsonToItem(json)) = json
<1> DEFINE fields == json[2]
           parts  == Each(JsonToAv, fields)
<1>1. /\ json = <<"object", fields>> /\ fields = [n \in DOMAIN fields |-> fields[n]]
      /\ \A n \in DOMAIN fields : fields[n] \in Json
      /\ JsonToItem(json) = Whole("item", parts)
  BY DEF IsDocument, JsonToItem
<1>2. JsonToItem(json) = <<"item", parts>> /\ \A n \in DOMAIN parts : parts[n] # Nothing
  <2> HIDE DEF parts
  <2> QED BY <1>1, WholeIs
<1>3. \A n \in DOMAIN fields : AvToJson[JsonToAv[fields[n]]] = fields[n]
  BY <1>1, <1>2, ShownAsGiven DEF Each
<1>4. Each(AvToJson, parts) = fields
  BY <1>1, <1>3 DEF Each
<1>5. ItemToJson(JsonToItem(json)) = <<"object", fields>>
  <2> HIDE DEF parts
  <2> QED BY <1>2, <1>4 DEF ItemToJson
<1> QED BY <1>1, <1>5

\* What DynamoDB stores of a document is an item as DynamoDB has it.
LEMMA DocumentStored ==
    ASSUME NEW json, IsDocument(json), JsonToItem(json) # Nothing,
           ItemAsStored(JsonToItem(json)) # Nothing
    PROVE  InTable(ItemAsStored(JsonToItem(json)))
<1> DEFINE fields == json[2]
           parts  == Each(JsonToAv, fields)
           kept   == Each(AsStored, parts)
<1>1. /\ \A n \in DOMAIN fields : fields[n] \in Json
      /\ JsonToItem(json) = Whole("item", parts)
  BY DEF IsDocument, JsonToItem
<1>2. JsonToItem(json) = <<"item", parts>> /\ \A n \in DOMAIN parts : parts[n] # Nothing
  <2> HIDE DEF parts
  <2> QED BY <1>1, WholeIs
<1>3. ItemAsStored(JsonToItem(json)) = Whole("item", kept)
  <2> HIDE DEF parts
  <2> QED BY <1>2 DEF ItemAsStored
<1>4. /\ ItemAsStored(JsonToItem(json)) = <<"item", kept>>
      /\ \A n \in DOMAIN kept : kept[n] # Nothing
  <2> HIDE DEF kept
  <2> QED BY <1>3, WholeIs
<1>5. /\ \A n \in DOMAIN parts : parts[n] \in Av
      /\ DOMAIN kept = DOMAIN parts
      /\ \A n \in DOMAIN parts : kept[n] = AsStored[parts[n]]
  BY <1>1, <1>2, ClosureAssumption DEF Each
<1>6. kept = [n \in DOMAIN kept |-> kept[n]]
  BY DEF Each
<1> HIDE DEF parts, kept
<1>7. \A n \in DOMAIN kept : kept[n] \in Av /\ AsStored[kept[n]] = kept[n]
  BY <1>4, <1>5, ClosureAssumption, StoredStays
<1>8. Each(AsStored, kept) = kept
  BY <1>6, <1>7 DEF Each
<1>9. Whole("item", kept) = <<"item", kept>>
  BY <1>4 DEF Whole
<1>10. ItemAsStored(<<"item", kept>>) = <<"item", kept>>
  BY <1>8, <1>9 DEF ItemAsStored
<1> QED BY <1>4, <1>6, <1>7, <1>10 DEF InTable

\* An item of the table is shown as a document; the document converts, to an item
\* that DynamoDB stores, and to the same one if the SDK knows its types.
LEMMA ItemEchoed ==
    ASSUME NEW item, InTable(item), item # Nothing
    PROVE  /\ IsDocument(ItemToJson(item))
           /\ JsonToItem(ItemToJson(item)) # Nothing
           /\ ItemAsStored(JsonToItem(ItemToJson(item))) # Nothing
           /\ AllKnown(item) => JsonToItem(ItemToJson(item)) = item
<1> DEFINE attrs == item[2]
           shown  == Each(AvToJson, attrs)
           read   == Each(JsonToAv, shown)
<1>1. /\ attrs = [n \in DOMAIN attrs |-> attrs[n]]
      /\ \A n \in DOMAIN attrs : attrs[n] \in Av
      /\ Whole("item", Each(AsStored, attrs)) = item
  BY DEF InTable, ItemAsStored
<1>2. item = <<"item", Each(AsStored, attrs)>>
  BY <1>1, WholeIs
<1>3. Each(AsStored, attrs) = attrs
  BY <1>2
<1>4. \A n \in DOMAIN attrs : AsStored[attrs[n]] = attrs[n]
  BY <1>3 DEF Each
<1>5. ItemToJson(item) = <<"object", shown>>
  BY DEF ItemToJson
<1>6. /\ DOMAIN shown = DOMAIN attrs /\ shown = [n \in DOMAIN shown |-> shown[n]]
      /\ \A n \in DOMAIN attrs : shown[n] = AvToJson[attrs[n]] /\ shown[n] \in Json
  BY <1>1, ClosureAssumption DEF Each
<1>7. /\ DOMAIN read = DOMAIN attrs /\ read = [n \in DOMAIN read |-> read[n]]
      /\ \A n \in DOMAIN attrs : read[n] = JsonToAv[AvToJson[attrs[n]]]
  BY DEF Each
<1>8. IsDocument(ItemToJson(item))
  <2> HIDE DEF shown
  <2> QED BY <1>5, <1>6 DEF IsDocument
<1>9. \A n \in DOMAIN attrs :
         read[n] # Nothing /\ AsStored[read[n]] # Nothing
         /\ (Known[attrs[n]] => read[n] = attrs[n])
  <2> HIDE DEF read, attrs
  <2> QED BY <1>1, <1>4, <1>7, EchoIs
<1>10. JsonToItem(ItemToJson(item)) = Whole("item", read)
  <2> HIDE DEF shown
  <2> QED BY <1>5 DEF JsonToItem
<1> HIDE DEF read, shown
<1>11. JsonToItem(ItemToJson(item)) = <<"item", read>>
  BY <1>7, <1>9, <1>10 DEF Whole
<1>12. JsonToItem(ItemToJson(item)) # Nothing
  BY <1>11, NothingIs
<1>13. ItemAsStored(JsonToItem(ItemToJson(item))) # Nothing
  <2>1. ItemAsStored(<<"item", read>>) = Whole("item", Each(AsStored, read))
    BY DEF ItemAsStored
  <2>2. \A n \in DOMAIN read : AsStored[read[n]] # Nothing
    BY <1>7, <1>9
  <2> QED BY <1>11, <2>1, <2>2, NothingIs DEF Whole, Each
<1>14. ASSUME AllKnown(item) PROVE JsonToItem(ItemToJson(item)) = item
  <2>1. \A n \in DOMAIN attrs : read[n] = attrs[n]
    BY <1>9, <1>14 DEF AllKnown
  <2>2. read = attrs
    BY <1>1, <1>7, <2>1
  <2> QED BY <1>2, <1>3, <1>11, <2>2
<1> QED BY <1>8, <1>12, <1>13, <1>14

-----------------------------------------------------------------------------
(* The client and the table                                                *)

\* At first there is nothing.
LEMMA MarshalStart == MarshalInit => MarshalInv
BY NothingIs DEF MarshalInit, MarshalInv

\* Every step keeps the invariant.
LEMMA MarshalStep == MarshalInv /\ [MarshalNext]_marshalVars => MarshalInv'
<1> SUFFICES ASSUME MarshalInv, [MarshalNext]_marshalVars PROVE MarshalInv'
  OBVIOUS
<1>1. CASE Give
  <2>1. IsDocument(given')
    BY <1>1, DocumentAssumption DEF Give, MarshalInv
  <2> QED BY <1>1, <2>1 DEF Give, MarshalInv
<1>2. CASE MarshalItem
  BY <1>2 DEF MarshalItem, MarshalInv
<1>3. CASE Store
  <2>1. InTable(stored')
    BY <1>3, DocumentStored DEF Store, MarshalInv
  <2> QED BY <1>3, <2>1 DEF Store, MarshalInv
<1>4. CASE Reject
  BY <1>4 DEF Reject, MarshalInv
<1>5. CASE Retract
  BY <1>5 DEF Retract, MarshalInv
<1>6. CASE Overwrite
  BY <1>6, ForeignAssumption DEF Overwrite, MarshalInv
<1>7. CASE Read
  <2>1. IsDocument(answer')
    BY <1>7, ItemEchoed DEF Read, MarshalInv
  <2> QED BY <1>7, <2>1 DEF Read, MarshalInv
<1>8. CASE UNCHANGED marshalVars
  BY <1>8 DEF marshalVars, MarshalInv
<1> QED BY <1>1, <1>2, <1>3, <1>4, <1>5, <1>6, <1>7, <1>8 DEF MarshalNext

\* What is being sent is what the document converts to, what was refused was
\* refused for a reason, and the table holds what DynamoDB stores.
THEOREM MarshalIsInductive == MarshalSpec => []MarshalInv
<1>1. MarshalInit => MarshalInv
  BY MarshalStart
<1>2. MarshalInv /\ [MarshalNext]_marshalVars => MarshalInv'
  BY MarshalStep
<1> QED BY <1>1, <1>2, PTL DEF MarshalSpec

\* No document loses anything in json_to_item: the item that is sent shows as the
\* document again, whatever documents there are and however deep.
THEOREM ConversionIsLossless == MarshalSpec => []Lossless
<1>1. MarshalInv => Lossless
  BY DocumentShown DEF MarshalInv, Lossless
<1> QED BY <1>1, MarshalIsInductive, PTL

\* What item_to_json made of a stored item is refused neither by json_to_item nor
\* by DynamoDB when a client writes it back.
THEOREM EchoIsTaken == MarshalSpec => []EchoIsAccepted
<1>1. MarshalInv => EchoIsAccepted
  BY ItemEchoed DEF MarshalInv, EchoIsAccepted
<1> QED BY <1>1, MarshalIsInductive, PTL

\* Writing back an item of types the SDK knows leaves the item as it was.
THEOREM EchoIsHarmless == MarshalSpec => EchoChangesNothing
<1>1. MarshalInv /\ [MarshalNext]_marshalVars =>
        [/\ Store /\ stored # Nothing /\ AllKnown(stored)
         /\ given = ItemToJson(stored)
         => stored' = stored]_marshalVars
  <2> SUFFICES ASSUME MarshalInv, Store, stored # Nothing, AllKnown(stored),
                      given = ItemToJson(stored)
               PROVE  stored' = stored
    OBVIOUS
  <2>1. sent = JsonToItem(ItemToJson(stored)) /\ InTable(stored)
    BY DEF MarshalInv, Store
  <2>2. sent = stored
    BY <2>1, ItemEchoed
  <2> QED BY <2>1, <2>2 DEF Store, InTable
<1> QED BY <1>1, MarshalIsInductive, PTL DEF MarshalSpec, EchoChangesNothing
=============================================================================
