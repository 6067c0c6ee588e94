--------------------------- MODULE BindingService ---------------------------
(***************************************************************************)
(* What the backend promises the host, with no SDK, no lock, no network    *)
(* and no observability in it: a registration takes effect at one instant  *)
(* between its call and its return; a call resolves its name at one        *)
(* instant and is then bound to what it found, whatever is registered      *)
(* later; and its answer is one that what it found permits.                *)
(***************************************************************************)
EXTENDS Requests

CONSTANTS Name, Reg, Call, Binding, Args, MaxAttempts, None

VARIABLES
    bind,     \* the binding each name stands for
    regs,     \* the registrations
    calls,    \* the calls
    effects   \* how often DynamoDB carried out the request of each call

vars == <<bind, regs, calls, effects>>

Answers == {"body", "contents", "messages", "tool_error", "timeout",
            "transport", "not_found"}

\* What the gateway's decoder of each surface wants to see.
Body == [tool |-> "body", resource |-> "contents", prompt |-> "messages"]

Init ==
    /\ bind = [n \in Name |-> None]
    /\ regs = [r \in Reg |-> [st |-> "idle", name |-> None, binding |-> None]]
    /\ calls = [c \in Call |-> [st |-> "idle", name |-> None, args |-> None,
                                binding |-> None, answer |-> "none"]]
    /\ effects = [c \in Call |-> {}]

\* The arguments of c may reach DynamoDB under the binding it is bound to.
Permitted(c) ==
    /\ calls[c].binding # None
    /\ ParamsBind(calls[c].binding, calls[c].args)
    /\ Admissible(calls[c].binding, calls[c].args)

\* A resource read whose uri nobody gives has no contents to return.
Homeless(c) ==
    /\ calls[c].binding.surface = "resource"
    /\ ~ResourceUriKnown(calls[c].binding, calls[c].args)

\* What a bound call may be told. Success needs an effect; a timeout or a
\* failure may come with or without one. Only a call that may not reach
\* DynamoDB is told of its mistake, and a read without a uri, after its effect.
MayAnswer(c, ans) ==
    CASE calls[c].binding = None -> ans = "not_found"
      [] calls[c].binding # None /\ ~Permitted(c) -> ans = "tool_error"
      [] OTHER ->
           \/ ans \in {"timeout", "transport"}
           \/ /\ effects[c] # {}
              /\ ans = IF Homeless(c) THEN "tool_error"
                       ELSE Body[calls[c].binding.surface]

Register(r, n, b) ==
    /\ regs[r].st = "idle"
    /\ regs' = [regs EXCEPT ![r] =
                  [st |-> IF b.accepted THEN "pending" ELSE "refused",
                   name |-> n, binding |-> b]]
    /\ UNCHANGED <<bind, calls, effects>>

TakeEffect(r) ==
    /\ regs[r].st = "pending"
    /\ regs' = [regs EXCEPT ![r].st = "done"]
    /\ bind' = [bind EXCEPT ![regs[r].name] = regs[r].binding]
    /\ UNCHANGED <<calls, effects>>

Invoke(c, n, a) ==
    /\ calls[c].st = "idle"
    /\ calls' = [calls EXCEPT ![c].st = "pending", ![c].name = n, ![c].args = a]
    /\ UNCHANGED <<bind, regs, effects>>

Resolve(c) ==
    /\ calls[c].st = "pending"
    /\ calls' = [calls EXCEPT ![c].st = "bound",
                              ![c].binding = bind[calls[c].name]]
    /\ UNCHANGED <<bind, regs, effects>>

\* DynamoDB carries the request out, perhaps again, perhaps after the answer.
CarryOut(c, k) ==
    /\ calls[c].st \in {"bound", "answered"}
    /\ Permitted(c)
    /\ k \notin effects[c]
    /\ effects' = [effects EXCEPT ![c] = @ \cup {k}]
    /\ UNCHANGED <<bind, regs, calls>>

Answer(c) ==
    /\ calls[c].st = "bound"
    /\ \E ans \in Answers :
         /\ MayAnswer(c, ans)
         /\ calls' = [calls EXCEPT ![c].st = "answered", ![c].answer = ans]
    /\ UNCHANGED <<bind, regs, effects>>

Next ==
    \/ \E r \in Reg : TakeEffect(r) \/ \E n \in Name, b \in Binding : Register(r, n, b)
    \/ \E c \in Call :
         \/ \E n \in Name, a \in Args : Invoke(c, n, a)
         \/ Resolve(c) \/ Answer(c)
         \/ \E k \in 1 .. MaxAttempts : CarryOut(c, k)

Spec == Init /\ [][Next]_vars
=============================================================================
