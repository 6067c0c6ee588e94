----------------------------- MODULE Completion -----------------------------
(***************************************************************************)
(* complete_template_variable: a client types the value of a template      *)
(* variable and asks, now and then, for the values that begin with what it *)
(* has typed.  The plugin runs one Query that the operator configured for  *)
(* the variable, with what was typed bound as :prefix, and returns the     *)
(* value attribute of the items it gets.  Meanwhile items are written and  *)
(* the profile is registered anew.                                         *)
(*                                                                         *)
(* Strings stay out of the model: of a sort key it keeps how many of the   *)
(* characters the client means to type it begins with.  The items are what *)
(* the replica that answers the Query has of the partition, in the order   *)
(* of their sort keys.                                                     *)
(***************************************************************************)
EXTENDS Integers, FiniteSets

CONSTANTS
    Positions,  \* places for an item in the partition
    Typed,      \* characters the client types at most
    Completing, \* the bindings that configure the variable
    Megabyte,   \* items of a Query's page at most, whatever its Limit
    None        \* no item, no binding, no call, no answer

Position == 1 .. Positions

\* A binding: whether it configures this variable, CompletionConfig.max_results
\* with its default filled in (any i32), and limits.max_page_size, which
\* registration checks as it checks that the expression values marshal.
Binding == [configured : BOOLEAN, max : Int, page : 1 .. 1000]

ASSUME SizeAssumption ==
    Positions \in Nat /\ Typed \in Nat /\ Megabyte \in Nat \ {0}
ASSUME BindingAssumption == Completing \subseteq Binding /\ None \notin Binding

\* An item: how much of what is typed its key begins with, and whether its
\* value attribute is a string.
Item == [depth : 0 .. Typed, valued : BOOLEAN]

ASSUME ItemAssumption == None \notin Item

\* A call in flight has its binding from the start, whatever is registered
\* later; an answer remembers the call it is to.
Call == [binding : Completing, prefix : 0 .. Typed]

Answer ==
    [binding : Completing, prefix : 0 .. Typed, shown : SUBSET Position]

ASSUME CallAssumption == None \notin Call /\ None \notin Answer

VARIABLES
    items,    \* the partition
    binding,  \* the registered profile
    typed,    \* how many characters the client has typed
    call,     \* the completion request in flight
    answer,   \* the last list of candidates; None if the last call failed
    settled   \* nothing was written since that answer

vars == <<items, binding, typed, call, answer, settled>>

TypeOK ==
    /\ items \in [Position -> Item \cup {None}]
    /\ binding \in Completing \cup {None}
    /\ typed \in 0 .. Typed
    /\ call \in Call \cup {None}
    /\ answer \in Answer \cup {None}
    /\ settled \in BOOLEAN

Init ==
    /\ items \in [Position -> Item \cup {None}]
    /\ binding \in Completing \cup {None}
    /\ typed = 0
    /\ call = None
    /\ answer = None
    /\ settled = FALSE

-----------------------------------------------------------------------------
(* The Query and its candidates                                            *)

\* The items whose sort key begins with what was typed.
Matching(prefix) ==
    {i \in Position : items[i] # None /\ items[i].depth >= prefix}

Smaller(a, b) == IF a <= b THEN a ELSE b
Larger(a, b) == IF a >= b THEN a ELSE b

\* The first n of a set of positions.
First(n, places) ==
    {i \in places : Cardinality({j \in places : j < i}) < n}

\* The Limit of the Query: max_results.min(max_page_size).max(1).
Limit(b) == Larger(Smaller(b.max, b.page), 1)

\* Variant: the Query goes on after the candidates shown last.
FetchedOnwards(b, prefix) ==
    First(Smaller(Limit(b), Megabyte),
          {i \in Matching(prefix) :
              answer # None => \A j \in answer.shown : j < i})

\* Variant: a :prefix among the operator's own values is not replaced.
FetchedOperatorPrefix(b, prefix) ==
    First(Smaller(Limit(b), Megabyte), Matching(0))

\* Variant: the Query reads the partition's end, not its beginning.
FetchedBackwards(b, prefix) ==
    LET places == Matching(prefix) IN
    {i \in places : Cardinality({j \in places : j > i}) < Limit(b)}

\* The Query's items: no more than its Limit and a page of a megabyte.
Fetched(b, prefix) ==
    First(Smaller(Limit(b), Megabyte), Matching(prefix))

\* Variant: a negative max_results wraps around.
CutWrapping(b) == IF b.max < 0 THEN Positions ELSE b.max

\* take(max.max(0)).
Cut(b) == Larger(b.max, 0)

\* items_to_completion_values: cut first, then skip what has no string value.
Candidates(b, prefix) ==
    {i \in First(Cut(b), Fetched(b, prefix)) : items[i].valued}

-----------------------------------------------------------------------------
(* The client, the table and the host                                      *)

Type ==
    /\ typed < Typed
    /\ typed' = typed + 1
    /\ UNCHANGED <<items, binding, call, answer, settled>>

Erase ==
    /\ typed > 0
    /\ typed' = typed - 1
    /\ UNCHANGED <<items, binding, call, answer, settled>>

Write(i, item) ==
    /\ items[i] # item
    /\ items' = [items EXCEPT ![i] = item]
    /\ settled' = FALSE
    /\ UNCHANGED <<binding, typed, call, answer>>

\* InsertProfile: the next call finds the other binding.
Register(b) ==
    /\ binding' = b
    /\ UNCHANGED <<items, typed, call, answer, settled>>

\* The profile is looked up; an unknown profile is an error, and a variable
\* without a configuration has no candidates.
Ask ==
    /\ call = None
    /\ \/ /\ binding # None /\ binding.configured
          /\ call' = [binding |-> binding, prefix |-> typed]
          /\ UNCHANGED <<answer, settled>>
       \/ /\ binding # None /\ ~binding.configured
          /\ answer' = [binding |-> binding, prefix |-> typed, shown |-> {}]
          /\ settled' = TRUE
          /\ UNCHANGED call
       \/ /\ binding = None
          /\ answer' = None
          /\ settled' = FALSE
          /\ UNCHANGED call
    /\ UNCHANGED <<items, binding, typed>>

\* The Query was answered.
Reply ==
    /\ call # None
    /\ answer' = [binding |-> call.binding, prefix |-> call.prefix,
                  shown |-> Candidates(call.binding, call.prefix)]
    /\ settled' = TRUE
    /\ call' = None
    /\ UNCHANGED <<items, binding, typed>>

\* The Query failed or ran into the operation's timeout: an error, no list.
Fail ==
    /\ call # None
    /\ answer' = None
    /\ settled' = FALSE
    /\ call' = None
    /\ UNCHANGED <<items, binding, typed>>

Next ==
    \/ Type \/ Erase \/ Ask \/ Reply \/ Fail
    \/ \E i \in Position, item \in Item \cup {None} : Write(i, item)
    \/ \E b \in Completing : Register(b)

Spec == Init /\ [][Next]_vars

-----------------------------------------------------------------------------
(* What a client may rely on                                               *)

\* The last answer came from a Query on the partition as it is.
Current == answer # None /\ settled /\ answer.binding.configured

\* No list is longer than the operator's max_results and page size allow: a
\* max_results of 0 or less, which registration accepts, lists nothing though
\* the Query reads an item.
WithinCap ==
    answer # None =>
        /\ Cardinality(answer.shown) <= Larger(answer.binding.max, 0)
        /\ Cardinality(answer.shown) <= answer.binding.page

\* A candidate begins with what was typed when the call was made, whatever the
\* operator's own expression values say and whatever was typed since.
OnlyMatches ==
    Current => answer.shown \subseteq
                 {i \in Matching(answer.prefix) : items[i].valued}

\* The list has no gap: a value that comes before one it shows is shown.  And
\* when no more items match than the Query may read, it shows all their values:
\* items without a value attribute shorten the list, they do not hide others.
NoneWithheld ==
    Current =>
        \A i \in Matching(answer.prefix) :
            /\ items[i].valued
            /\ \/ \E j \in answer.shown : i < j
               \/ /\ Cardinality(Matching(answer.prefix)) <= Megabyte
                  /\ Cardinality(Matching(answer.prefix))
                       <= Smaller(answer.binding.max, answer.binding.page)
            => i \in answer.shown

\* Typing on never loses a candidate: what was shown for a shorter prefix and
\* still matches is shown for the longer one.
NarrowingKeeps ==
    [][ /\ Reply /\ Current
        /\ answer.binding = call.binding /\ answer.prefix <= call.prefix
        => answer.shown \cap Matching(call.prefix) \subseteq answer'.shown ]_vars

\* What makes them inductive: the answer is still what its Query gives.
CurrentInv ==
    Current => answer.shown = Candidates(answer.binding, answer.prefix)

CompletionInv == TypeOK /\ CurrentInv
=============================================================================
