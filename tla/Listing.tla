------------------------------ MODULE Listing ------------------------------
(***************************************************************************)
(* A client walks through a table page by page while others write to it:   *)
(* with resources/list ("list", the operator's Scan, an opaque cursor), or *)
(* with calls of a query or scan binding ("scan", the caller's own limit,  *)
(* last_evaluated_key passed back as exclusive_start_key).  Either way a   *)
(* page is one request that evaluates items in the table's order, after    *)
(* the key it starts from, up to its limit.                                *)
(*                                                                         *)
(* Keys are numbered in that order.  The cursor is the key it stands for:  *)
(* its encoding, DynamoDB-JSON in base64, loses nothing of a key whose     *)
(* attributes are strings, numbers and binaries, which is all they can be. *)
(***************************************************************************)
EXTENDS Integers, FiniteSets

CONSTANTS
    Keys,         \* keys the table has room for
    Matching,     \* the keys of items that pass the filter expression
    WithUri,      \* the keys of items that have a string uri attribute
    MaxPageSize,  \* limits.max_page_size
    ListPageSize, \* list_query.page_size
    Asked,        \* the limits callers pass, None for no limit or no integer
    Half,         \* a request holds limits of -Half .. Half - 1 (2^31 in the code)
    None

ASSUME KeysAssumption ==
    Keys \in Nat /\ Matching \subseteq 1 .. Keys /\ WithUri \subseteq 1 .. Keys
ASSUME PageAssumption == MaxPageSize \in Nat \ {0} /\ ListPageSize \in Nat \ {0}
ASSUME AskedAssumption == Asked \subseteq Int \cup {None}
ASSUME HalfAssumption ==
    Half \in Nat \ {0} /\ MaxPageSize < Half /\ ListPageSize < Half
ASSUME NoneIsNoKey == None \notin Int

Key == 1 .. Keys

VARIABLES
    table,   \* the keys of the items in the table
    mode,    \* "list" or "scan"
    asked,   \* the limit the caller passes
    pc,      \* the client
    start,   \* the key the next page starts after; 0 at the beginning
    pos,     \* the key evaluated last for the page under way
    count,   \* items evaluated for it
    page,    \* what it will contain
    listed,  \* how often each key was delivered
    stable   \* the keys that have been in the table since the walk began

vars == <<table, mode, asked, pc, start, pos, count, page, listed, stable>>

Ended == pc \in {"finished", "abandoned"}

TypeOK ==
    /\ table \subseteq Key
    /\ mode \in {"list", "scan"}
    /\ asked \in Asked
    /\ pc \in {"idle", "ready", "scanning", "finished", "abandoned"}
    /\ start \in 0 .. Keys
    /\ pos \in 0 .. Keys
    /\ count \in Nat
    /\ page \subseteq Key
    /\ listed \in [Key -> Nat]
    /\ stable \subseteq table

-----------------------------------------------------------------------------
(* How many items a page may evaluate                                      *)

Smaller(m, n) == IF m <= n THEN m ELSE n
Larger(m, n) == IF m <= n THEN n ELSE m

\* n as i32: the upper bits are cut off.
Narrow(n) ==
    LET low == n % (2 * Half) IN IF low < Half THEN low ELSE low - 2 * Half

\* clamp_limit
ClampLimit(n) ==
    IF n # None /\ n >= 1 THEN Smaller(Narrow(n), MaxPageSize) ELSE MaxPageSize

ListLimit == Larger(Smaller(ListPageSize, MaxPageSize), 1)

Limit == IF mode = "list" THEN ListLimit ELSE ClampLimit(asked)

\* The keys whose items a page of this walk shows.
Shown == IF mode = "list" THEN Matching \cap WithUri ELSE Matching

Init ==
    /\ table \in SUBSET Key
    /\ mode \in {"list", "scan"}
    /\ asked \in Asked
    /\ pc = "idle"
    /\ start = 0 /\ pos = 0 /\ count = 0 /\ page = {}
    /\ listed = [k \in Key |-> 0]
    /\ stable = {}

-----------------------------------------------------------------------------
(* Other users of the table                                                *)

walkUnchanged == UNCHANGED <<mode, asked, pc, start, pos, count, page, listed>>

PutItem(k) ==
    /\ k \notin table
    /\ table' = table \cup {k}
    /\ UNCHANGED stable
    /\ walkUnchanged

DeleteItem(k) ==
    /\ k \in table
    /\ table' = table \ {k}
    /\ stable' = stable \ {k}
    /\ walkUnchanged

-----------------------------------------------------------------------------
(* The walk                                                                *)

Begin ==
    /\ pc = "idle"
    /\ pc' = "ready"
    /\ stable' = table
    /\ UNCHANGED <<table, mode, asked, start, pos, count, page, listed>>

\* Variant: a page starts with the key the last one ended with.
AskInclusive ==
    /\ pc = "ready"
    /\ pc' = "scanning"
    /\ pos' = start - 1 /\ count' = 0 /\ page' = {}
    /\ UNCHANGED <<table, mode, asked, start, listed, stable>>

\* A request for the page after start is on its way.
Ask ==
    /\ pc = "ready"
    /\ pc' = "scanning"
    /\ pos' = start /\ count' = 0 /\ page' = {}
    /\ UNCHANGED <<table, mode, asked, start, listed, stable>>

\* DynamoDB evaluates the next item. The limit counts the filtered ones, too.
Evaluate(k) ==
    /\ pc = "scanning"
    /\ count < Limit
    /\ k \in table /\ k > pos /\ \A j \in table : j > pos => j >= k
    /\ pos' = k
    /\ count' = count + 1
    /\ page' = page \cup ({k} \cap Shown)
    /\ UNCHANGED <<table, mode, asked, pc, start, listed, stable>>

Deliver == listed' = [k \in Key |-> IF k \in page THEN listed[k] + 1 ELSE listed[k]]

\* Variant: a page with nothing to show is taken for the last one.
EndPageIfEmpty ==
    /\ pc = "scanning"
    /\ count > 0
    /\ Deliver
    /\ start' = pos
    /\ pc' = IF page = {} THEN "finished" ELSE "ready"
    /\ UNCHANGED <<table, mode, asked, pos, count, page, stable>>

\* Variant: the next cursor is the one that was asked with.
EndPageSameCursor ==
    /\ pc = "scanning"
    /\ count > 0
    /\ Deliver
    /\ pc' = "ready"
    /\ UNCHANGED <<table, mode, asked, start, pos, count, page, stable>>

\* The page is full, be it by the limit or by its size: last_evaluated_key is
\* where the next one starts.
EndPage ==
    /\ pc = "scanning"
    /\ count > 0
    /\ Deliver
    /\ start' = pos
    /\ pc' = "ready"
    /\ UNCHANGED <<table, mode, asked, pos, count, page, stable>>

\* Nothing is left: there is no last_evaluated_key and no next_cursor.
EndTable ==
    /\ pc = "scanning"
    /\ count < Limit
    /\ \A k \in table : k <= pos
    /\ Deliver
    /\ pc' = "finished"
    /\ UNCHANGED <<table, mode, asked, start, pos, count, page, stable>>

\* A timeout or an error: the client still has the cursor it asked with.
PageFails ==
    /\ pc = "scanning"
    /\ pc' = "ready"
    /\ UNCHANGED <<table, mode, asked, start, pos, count, page, listed, stable>>

Abandon ==
    /\ pc = "ready"
    /\ pc' = "abandoned"
    /\ UNCHANGED <<table, mode, asked, start, pos, count, page, listed, stable>>

Walk ==
    \/ Begin \/ Ask \/ (\E k \in Key : Evaluate(k))
    \/ EndPage \/ EndTable \/ PageFails \/ Abandon

Next ==
    \/ \E k \in Key : PutItem(k) \/ DeleteItem(k)
    \/ Walk
    \/ Ended /\ UNCHANGED vars

Spec == Init /\ [][Next]_vars

\* The client goes on asking, and its requests do not fail for ever.
Fairness ==
    /\ WF_vars(Ask)
    /\ SF_vars(\E k \in Key : Evaluate(k))
    /\ SF_vars(EndPage) /\ SF_vars(EndTable)

FairSpec == Spec /\ Fairness

-----------------------------------------------------------------------------

\* No item is delivered twice in one walk, whatever is written meanwhile and
\* however often a page had to be asked for again.
ListedOnce == \A k \in Key : listed[k] <= 1

\* A walk that came to its end has delivered every item it should show that
\* was there from its beginning to its end: pages the filter emptied, skipped
\* rows and failed pages lose none.
StableListed ==
    pc = "finished" => \A k \in stable \cap Shown : listed[k] = 1

\* No page makes DynamoDB evaluate more than the operator allows, whatever the
\* caller asks for, nor more than a caller asks for.
PageBounded ==
    /\ count <= MaxPageSize
    /\ mode = "scan" /\ asked # None /\ asked >= 1 => count <= asked

\* What the page under way stands for: the stretch of the key order from start
\* to pos, with all of it that is stable and to be shown.
StretchInv ==
    pc = "scanning" =>
        /\ start <= pos
        /\ \A k \in page : start < k /\ k <= pos /\ k \in Shown
        /\ \A k \in stable \cap Shown : start < k /\ k <= pos => k \in page

\* What the pages before it delivered: nothing after start, and everything
\* stable up to it.
DeliveredInv ==
    /\ pc = "idle" => stable = {} /\ start = 0
    /\ pc # "finished" => \A k \in Key : k > start => listed[k] = 0
    /\ pc \notin {"idle", "finished"} =>
         \A k \in stable \cap Shown : k <= start => listed[k] = 1

\* Why the others hold: pages are consecutive stretches of the key order, and
\* none leaves out what is stable.
ListingInv ==
    /\ TypeOK
    /\ PageBounded
    /\ StretchInv
    /\ DeliveredInv
    /\ ListedOnce
    /\ StableListed

\* A page under way has passed at least as many keys as it has evaluated items.
ReachInv == pc = "scanning" => start + count <= pos

\* Every page with a cursor moves the walk on, by no less than the items it
\* evaluated, and nothing moves it back: failures, filters and other writers
\* included. A walk has no more such pages than there are keys.
CursorsAdvance ==
    [][/\ start' >= start
       /\ EndPage => count > 0 /\ start' >= start + count]_vars

\* A walk ends, also when the table is written to all the time: as long as
\* pages do not fail for ever, and the limit fits the request.
WalkEnds ==
    LET fits == mode = "list" \/ asked = None \/ asked = Narrow(asked) IN
    fits /\ pc = "ready" ~> Ended

\* README.md: "limit is clamped to limits.max_page_size". The cast before the
\* comparison makes a limit of 2^31 and more negative, or 0, or another one.
LimitIsClamped ==
    pc = "scanning" =>
        Limit = IF mode = "scan" /\ asked # None /\ asked >= 1
                THEN Smaller(asked, MaxPageSize)
                ELSE Smaller(IF mode = "list" THEN ListPageSize ELSE MaxPageSize,
                             MaxPageSize)

\* Pages, cursors, limits, filters and failures are an enumeration.
Walked == INSTANCE Enumeration WITH
    shown <- Shown,
    phase <- IF pc \in {"ready", "scanning"} THEN "walking" ELSE pc

EnumerationSpec == Walked!Spec

=============================================================================
