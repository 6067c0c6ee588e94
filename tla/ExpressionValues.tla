-------------------------- MODULE ExpressionValues --------------------------
(***************************************************************************)
(* The ExpressionAttributeValues of a request: the caller's own, merged    *)
(* with the values that the binding's CEL params give for the call's       *)
(* arguments.  On the way a JSON number becomes a CEL number, and that the *)
(* text of a DynamoDB number.                                              *)
(*                                                                         *)
(* Numbers are counted in halves, so that 3 is 6 and 1.5 is 3: the code    *)
(* tells whole floats from others, and no finer fraction matters to it.    *)
(* The CEL language stays outside: of a program the model has what it      *)
(* makes of the one argument it reads.                                     *)
(***************************************************************************)
EXTENDS Integers

CONSTANTS
    Placeholder,   \* names of placeholders, with their colon
    CallerValues,  \* what a caller may give for a placeholder
    Literals,      \* the argument's values in a call, as JSON
    IntMax,        \* the largest i64
    UIntMax,       \* the largest u64
    Floats,        \* what f64 holds of the numbers, in halves
    Decimals,      \* the numbers that texts of digits stand for, in halves
    Length,        \* the digits of each, less the zeros that only pad it
    Threshold,     \* the 1e15 of format_n
    None           \* no argument, no program or value of a placeholder

ASSUME WidthAssumption ==
    /\ IntMax \in Nat /\ UIntMax \in Nat /\ Threshold \in Nat
    /\ Threshold <= IntMax /\ IntMax <= UIntMax
ASSUME NoneAssumption ==
    \A n \in -IntMax - 1 .. UIntMax : None # <<"integer", n>>
ASSUME LiteralAssumption ==
    \A json \in Literals :
        /\ json[1] \in {"integer", "decimal", "null", "bool", "string", "list"}
        /\ json[1] \in {"integer", "decimal"} => json[2] \in Int
ASSUME FloatAssumption == Floats \subseteq Int /\ 0 \in Floats
\* An integer has no more digits than the fractions next to it.
ASSUME DecimalAssumption ==
    /\ Floats \subseteq Decimals /\ Decimals \subseteq Int
    /\ Length \in [Decimals -> Nat]
    /\ \A h, d \in Decimals :
          h % 2 = 0 /\ d \in {h - 1, h + 1} => Length[h] <= Length[d]

Programs == {"argument", "double", "overflow", "fixed", "failing"}

VARIABLES
    params,   \* the registered params: a program per placeholder, or None
    caller,   \* the call's expression_attribute_values
    argument, \* the call's argument, as JSON
    results,  \* what the programs gave, per param
    values,   \* the ExpressionAttributeValues: whether the request has them
    pc        \* where the call is

vars == <<params, caller, argument, results, values, pc>>

Given == {p \in Placeholder : params[p] # None}
GivenByCaller == {p \in Placeholder : caller[p] # None}

Unset == [p \in Placeholder |-> None]

NoValues == [carried |-> FALSE, map |-> Unset]

-----------------------------------------------------------------------------
(* JSON to CEL                                                             *)

Distance(a, b) == IF a <= b THEN b - a ELSE a - b

\* The f64 nearest to a number.
Nearest(h) ==
    CHOOSE f \in Floats : \A g \in Floats : Distance(f, h) <= Distance(g, h)

\* Variant: numbers that are no i64 go through an f64.
NumberToCelSigned(n) ==
    IF n \in -IntMax - 1 .. IntMax THEN <<"int", n>>
    ELSE <<"float", Nearest(2 * n)>>

\* A JSON integer: as_i64, else as_u64, else as_f64.
NumberToCel(n) ==
    IF n \in -IntMax - 1 .. IntMax THEN <<"int", n>>
    ELSE IF n \in 0 .. UIntMax THEN <<"uint", n>>
    ELSE <<"float", Nearest(2 * n)>>

\* json_to_cel; objects are lists here, as neither can be bound.
JsonToCel(json) ==
    CASE json[1] = "integer" -> NumberToCel(json[2])
      [] json[1] = "decimal" -> <<"float", Nearest(json[2])>>
      [] json[1] \in {"null", "bool", "string", "list"} -> json

\* What a program gives for the argument; "error" where it does not execute.
Execute(program, json) ==
    LET cel == IF json = None THEN <<"error">> ELSE JsonToCel(json)
    IN CASE program = "argument" -> cel
         [] program = "double" /\ cel[1] \in {"int", "uint"} ->
              <<"float", Nearest(2 * cel[2])>>
         [] program = "double" /\ cel[1] = "float" -> cel
         [] program = "overflow" /\ cel[1] = "float" -> <<"infinite">>
         [] program = "fixed" -> <<"string", "fixed">>
         [] OTHER -> <<"error">>

-----------------------------------------------------------------------------
(* CEL to DynamoDB                                                         *)

\* The number a text of digits stands for, and whether it has a point.
Digits(halves, point) == <<"N", halves, point>>

\* f as i64: a cast that saturates.
AsInt(n) ==
    IF n > IntMax THEN IntMax ELSE IF n < -IntMax - 1 THEN -IntMax - 1 ELSE n

\* The texts that are read as this float again.
ReadBack(h) == {d \in Decimals : Nearest(d) = h}

\* How an f64 is displayed: of the decimals that are read as it again, one with
\* the fewest digits, and of these the closest. Zeros pad it to the point, so
\* that a large whole float need not be displayed as the number it is.
Shortest ==
    [h \in Floats |->
        LET same  == ReadBack(h)
            brief == {d \in same : \A e \in same : Length[d] <= Length[e]}
        IN  CHOOSE d \in brief :
               \A e \in brief : Distance(d, h) <= Distance(e, h)]

\* Variant: every whole float is printed as an i64.
FormatNWhole(h) ==
    IF h % 2 = 0 THEN Digits(2 * AsInt(h \div 2), FALSE)
    ELSE Digits(Shortest[h], TRUE)

\* format_n: whole floats below the threshold lose their point, others are
\* displayed, with a point.
FormatN(h) ==
    IF h % 2 = 0 /\ -2 * Threshold < h /\ h < 2 * Threshold
    THEN Digits(2 * AsInt(h \div 2), FALSE)
    ELSE Digits(Shortest[h], TRUE)

\* Only these may be bound.
Scalar(cel) == cel[1] \in {"null", "bool", "int", "uint", "float", "string"}

\* cel_to_attribute_value, of a value that may be bound.
ToAttributeValue(cel) ==
    CASE cel[1] = "null" -> <<"NULL", TRUE>>
      [] cel[1] = "bool" -> <<"BOOL", cel[2]>>
      [] cel[1] \in {"int", "uint"} -> Digits(2 * cel[2], FALSE)
      [] cel[1] = "float" -> FormatN(cel[2])
      [] cel[1] = "string" -> <<"S", cel[2]>>

\* Variant: the caller's value for a placeholder wins.
MergeCallerLast(bound) ==
    [p \in Placeholder |-> IF p \in GivenByCaller THEN caller[p] ELSE bound[p]]

\* merged_expr_values: the caller's values, then the params' over them.
Merge(bound) ==
    [p \in Placeholder |-> IF p \in Given THEN bound[p] ELSE caller[p]]

-----------------------------------------------------------------------------
(* A binding and its calls                                                 *)

PCs == {"idle", "called", "evaluated", "sent", "refused"}

Init ==
    /\ params \in [Placeholder -> Programs \cup {None}]
    /\ caller = Unset /\ argument = None
    /\ results = Unset /\ values = NoValues
    /\ pc = "idle"

Call ==
    /\ pc = "idle"
    /\ caller' \in [Placeholder -> CallerValues \cup {None}]
    /\ argument' \in Literals \cup {None}
    /\ pc' = "called"
    /\ UNCHANGED <<params, results, values>>

\* evaluate_params: every program is executed, and the call is refused with a
\* tool error when one fails or its result cannot be bound.
Evaluate ==
    /\ pc = "called"
    /\ results' = [p \in Placeholder |->
                      IF params[p] = None THEN None
                      ELSE Execute(params[p], argument)]
    /\ pc' = IF \A p \in Given : Scalar(results'[p]) THEN "evaluated" ELSE "refused"
    /\ UNCHANGED <<params, caller, argument, values>>

Bound ==
    [p \in Placeholder |->
        IF p \in Given THEN ToAttributeValue(results[p]) ELSE None]

\* The request carries no values at all when there are none.
Send ==
    /\ pc = "evaluated"
    /\ values' = [carried |-> Given \cup GivenByCaller # {}, map |-> Merge(Bound)]
    /\ pc' = "sent"
    /\ UNCHANGED <<params, caller, argument, results>>

Answer ==
    /\ pc \in {"sent", "refused"}
    /\ pc' = "idle"
    /\ caller' = Unset /\ argument' = None
    /\ results' = Unset /\ values' = NoValues
    /\ UNCHANGED params

Next == Call \/ Evaluate \/ Send \/ Answer

Spec == Init /\ [][Next]_vars

-----------------------------------------------------------------------------

\* A value in the request, or None.
Sent(p) == IF values.carried THEN values.map[p] ELSE None

\* Every placeholder of the params has the operator's value in the request, and
\* no other: a caller shadows none, and a param that failed sends nothing.
OperatorDecides ==
    pc = "sent" =>
        \A p \in Given :
            LET cel == Execute(params[p], argument)
            IN Scalar(cel) /\ Sent(p) = ToAttributeValue(cel)

\* The caller's other values arrive, and nothing else does.
CallerDecidesTheRest ==
    pc = "sent" => \A p \in Placeholder \ Given : Sent(p) = caller[p]

\* An integer that a client passes through a param arrives as the integer it
\* wrote, up to the largest u64, whatever an f64 would have made of it.
IntegersArrive ==
    pc = "sent" =>
        \A p \in Given, n \in -IntMax - 1 .. UIntMax :
            params[p] = "argument" /\ argument = <<"integer", n>>
              => Sent(p) = Digits(2 * n, FALSE)

\* A whole float among others without a gap: below 2^53.
Consecutive(h) == h % 2 = 0 /\ {h - 2, h + 2} \subseteq Floats

\* A float that a program computed arrives as a number that is read as the same
\* float, and as that number itself where floats leave out no integer: the cast
\* that drops its point never saturates, and what is displayed is not shortened
\* beyond recognition. DynamoDB compares decimals, so a float above 2^53 may
\* meet there a key that it is not equal to.
FloatsArrive ==
    pc = "sent" =>
        \A p \in Given :
            results[p][1] = "float" =>
                LET float  == results[p][2]
                    number == Sent(p)[2]
                IN  /\ Sent(p)[1] = "N" /\ number \in Decimals
                    /\ Nearest(number) = float
                    /\ Consecutive(float) => number = float

-----------------------------------------------------------------------------
(* What makes them inductive                                               *)

\* Once evaluated, every param has a result of its own that can be bound.
ResultsInv ==
    pc \in {"evaluated", "sent"} =>
        \A p \in Given :
            results[p] = Execute(params[p], argument) /\ Scalar(results[p])

\* What is sent is what the merge gives.
SentInv ==
    pc = "sent" =>
        values = [carried |-> Given \cup GivenByCaller # {}, map |-> Merge(Bound)]

ValuesInv ==
    /\ pc \in PCs
    /\ argument \in Literals \cup {None}
    /\ ResultsInv
    /\ SentInv
=============================================================================
