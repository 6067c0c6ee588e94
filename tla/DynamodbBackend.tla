-------------------------- MODULE DynamodbBackend --------------------------
(***************************************************************************)
(* The backend plugin: the registry of bindings, the register_profile      *)
(* calls that fill it and the execute calls that read it, all of which the *)
(* host may run at once (each blocks its own host thread on the plugin's   *)
(* runtime).  A request to DynamoDB goes out through the AWS SDK, which    *)
(* sends it again when an attempt looks lost; DynamoDB may carry out any   *)
(* attempt, also one whose answer nobody waits for any more.               *)
(*                                                                         *)
(* Every register call and every execute call happens once: Reg and Call   *)
(* are the calls, not the threads.                                         *)
(***************************************************************************)
EXTENDS Requests

CONSTANTS
    Name,        \* profile names
    Reg,         \* register_profile calls
    Call,        \* execute calls
    Binding,     \* the bindings operators write
    Args,        \* the arguments callers send
    MaxAttempts, \* attempts the SDK makes of one request
    None         \* no binding, no arguments, nobody

ASSUME BindingAssumption == Binding \subseteq Bindings
ASSUME ArgsAssumption == Args \subseteq Arguments
ASSUME AttemptsAssumption == MaxAttempts \in Nat \ {0}
ASSUME NoneAssumption ==
    None \notin Binding \cup Args \cup Name \cup Reg

VARIABLES
    profiles,  \* the registry: the binding of each name
    writer,    \* the register call that holds the registry's write lock
    reg,       \* the register calls
    call,      \* the execute calls
    net,       \* each attempt of each request
    executed,  \* the attempts of each request that DynamoDB carried out
    metrics,   \* the outcome labels each call has counted
    audits     \* the audit actions each call has recorded

vars == <<profiles, writer, reg, call, net, executed, metrics, audits>>

Attempts == 1 .. MaxAttempts

RegPCs == {"idle", "building", "built", "locked", "registered", "rejected"}

CallPCs == {"idle", "lookup", "parsing", "awaiting", "metrics", "audit",
            "shaping", "returned"}

\* What happened to an attempt: not made, on its way to DynamoDB, answered
\* with success, answered with an error, or its connection is gone.
AttemptStates == {"unsent", "flying", "acked", "refused", "lost"}

\* What the handler or an early return ends with.
Results == {"ok", "tool", "timeout", "transport", "not_found"}

Labels == {"ok", "tool_error", "timeout", "transport_error", "invalid_spec",
           "profile_not_found"}

AuditActions == {"request_timeout", "request_failed", "request_rejected"}

\* The result of the operation as a tool, resource or prompt body; a verbatim
\* tool error; the three BackendErrors.
Responses == {"body", "contents", "messages", "tool_error", "timeout",
              "transport", "not_found"}

-----------------------------------------------------------------------------
(* Classification of a result, as execute does it.                         *)

\* Variant: every failure counted as the caller's.
OutcomeLabelMerged(result) ==
    CASE result = "ok"      -> "ok"
      [] result = "timeout" -> "timeout"
      [] OTHER              -> "tool_error"

OutcomeLabelFor(result) ==
    CASE result = "ok"      -> "ok"
      [] result = "tool"    -> "tool_error"
      [] result = "timeout" -> "timeout"
      [] OTHER              -> "transport_error"

\* The audit actions of a label: one for a failure, none otherwise.
AuditActionFor(label) ==
    CASE label = "timeout"                              -> <<"request_timeout">>
      [] label \in {"transport_error", "invalid_spec"}  -> <<"request_failed">>
      [] label = "tool_error"                           -> <<"request_rejected">>
      [] OTHER                                          -> <<>>

\* The body of a successful operation on the binding's surface.
SurfaceBody(b, a) ==
    CASE b.surface = "tool"   -> "body"
      [] b.surface = "prompt" -> "messages"
      [] OTHER -> IF ResourceUriKnown(b, a) THEN "contents" ELSE "tool_error"

\* Variant: a request that was sent is taken for done when its timer runs out.
ResponseOptimistic(b, a, result) ==
    CASE result \in {"ok", "timeout"} -> SurfaceBody(b, a)
      [] result = "tool"              -> "tool_error"
      [] result = "not_found"         -> "not_found"
      [] OTHER                        -> "transport"

ResponseFor(b, a, result) ==
    CASE result = "ok"        -> SurfaceBody(b, a)
      [] result = "tool"      -> "tool_error"
      [] result = "timeout"   -> "timeout"
      [] result = "not_found" -> "not_found"
      [] OTHER                -> "transport"

-----------------------------------------------------------------------------

RegRecords ==
    [pc : RegPCs, name : Name \cup {None}, binding : Binding \cup {None}]

CallRecords ==
    [pc : CallPCs, name : Name \cup {None}, args : Args \cup {None},
     profile : Binding \cup {None}, attempt : 0 .. MaxAttempts,
     result : Results \cup {"none"}, label : Labels \cup {"none"},
     response : Responses \cup {"none"}]

TypeOK ==
    /\ profiles \in [Name -> Binding \cup {None}]
    /\ writer \in Reg \cup {None}
    /\ reg \in [Reg -> RegRecords]
    /\ call \in [Call -> CallRecords]
    /\ net \in [Call -> [Attempts -> AttemptStates]]
    /\ executed \in [Call -> SUBSET Attempts]
    /\ metrics \in [Call -> Seq(Labels)]
    /\ audits \in [Call -> Seq(AuditActions)]

Init ==
    /\ profiles = [n \in Name |-> None]
    /\ writer = None
    /\ reg = [r \in Reg |-> [pc |-> "idle", name |-> None, binding |-> None]]
    /\ call = [c \in Call |->
                 [pc |-> "idle", name |-> None, args |-> None,
                  profile |-> None, attempt |-> 0, result |-> "none",
                  label |-> "none", response |-> "none"]]
    /\ net = [c \in Call |-> [k \in Attempts |-> "unsent"]]
    /\ executed = [c \in Call |-> {}]
    /\ metrics = [c \in Call |-> <<>>]
    /\ audits = [c \in Call |-> <<>>]

-----------------------------------------------------------------------------
(* register_profile                                                        *)

regUnchanged == UNCHANGED <<call, net, executed, metrics, audits>>

\* The host registers binding b under n: parse, validate and compile the CEL
\* params, then start building the client.
BeginRegister(r, n, b) ==
    /\ reg[r].pc = "idle"
    /\ reg' = [reg EXCEPT ![r] =
                 [pc |-> IF b.accepted THEN "building" ELSE "rejected",
                  name |-> n, binding |-> b]]
    /\ UNCHANGED <<profiles, writer>>
    /\ regUnchanged

\* The credential chain has loaded and the client is there. Nothing bounds
\* the time this takes.
FinishBuild(r) ==
    /\ reg[r].pc = "building"
    /\ reg' = [reg EXCEPT ![r].pc = "built"]
    /\ UNCHANGED <<profiles, writer>>
    /\ regUnchanged

\* Variant: try_write, the registration given up when the lock is taken.
TryWriteLock(r) ==
    /\ reg[r].pc = "built"
    /\ writer' = IF writer = None THEN r ELSE writer
    /\ reg' = [reg EXCEPT ![r].pc =
                 IF writer = None THEN "locked" ELSE "rejected"]
    /\ UNCHANGED profiles
    /\ regUnchanged

TakeWriteLock(r) ==
    /\ reg[r].pc = "built"
    /\ writer = None
    /\ writer' = r
    /\ reg' = [reg EXCEPT ![r].pc = "locked"]
    /\ UNCHANGED profiles
    /\ regUnchanged

InsertProfile(r) ==
    /\ reg[r].pc = "locked"
    /\ profiles' = [profiles EXCEPT ![reg[r].name] = reg[r].binding]
    /\ writer' = None
    /\ reg' = [reg EXCEPT ![r].pc = "registered"]
    /\ regUnchanged

-----------------------------------------------------------------------------
(* execute                                                                 *)

callUnchanged == UNCHANGED <<profiles, writer, reg>>

\* One of the four places at which execute has its result and calls
\* emit_host_observability with a label of that place's own: no binding, no
\* JSON, no params, or what became of the operation. EmitMetrics and EmitAudit
\* are the body of what is called, ReturnResponse is what follows the call.
Observe(c, result, label) ==
    call' = [call EXCEPT ![c].pc = "metrics", ![c].result = result,
                         ![c].label = label]

BeginExecute(c, n, a) ==
    /\ call[c].pc = "idle"
    /\ call' = [call EXCEPT ![c].pc = "lookup", ![c].name = n, ![c].args = a]
    /\ UNCHANGED <<net, executed, metrics, audits>>
    /\ callUnchanged

\* Variant: try_read, a registry that is being written taken for empty.
TryLookupProfile(c) ==
    /\ call[c].pc = "lookup"
    /\ IF writer # None \/ profiles[call[c].name] = None
       THEN Observe(c, "not_found", "profile_not_found")
       ELSE call' = [call EXCEPT ![c].pc = "parsing",
                                 ![c].profile = profiles[call[c].name]]
    /\ UNCHANGED <<net, executed, metrics, audits>>
    /\ callUnchanged

\* Read the registry under the read lock and keep what is there: the call
\* works with this binding to its end.
LookupProfile(c) ==
    /\ call[c].pc = "lookup"
    /\ writer = None
    /\ IF profiles[call[c].name] = None
       THEN Observe(c, "not_found", "profile_not_found")
       ELSE call' = [call EXCEPT ![c].pc = "parsing",
                                 ![c].profile = profiles[call[c].name]]
    /\ UNCHANGED <<net, executed, metrics, audits>>
    /\ callUnchanged

\* The payload is not JSON.
RejectPayload(c) ==
    /\ call[c].pc = "parsing"
    /\ call[c].args.json = "broken"
    /\ Observe(c, "tool", "tool_error")
    /\ UNCHANGED <<net, executed, metrics, audits>>
    /\ callUnchanged

\* Variant: an early return that forgets to call emit_host_observability.
RejectParamsUnobserved(c) ==
    /\ call[c].pc = "parsing"
    /\ call[c].args.json # "broken"
    /\ ~ParamsBind(call[c].profile, call[c].args)
    /\ call' = [call EXCEPT ![c].pc = "shaping", ![c].result = "tool",
                            ![c].label = "invalid_spec"]
    /\ UNCHANGED <<net, executed, metrics, audits>>
    /\ callUnchanged

\* A CEL param does not evaluate to a scalar.
RejectParams(c) ==
    /\ call[c].pc = "parsing"
    /\ call[c].args.json # "broken"
    /\ ~ParamsBind(call[c].profile, call[c].args)
    /\ Observe(c, "tool", "invalid_spec")
    /\ UNCHANGED <<net, executed, metrics, audits>>
    /\ callUnchanged

\* The handler refuses the arguments.
RejectRequest(c) ==
    /\ call[c].pc = "parsing"
    /\ call[c].args.json # "broken"
    /\ ParamsBind(call[c].profile, call[c].args)
    /\ ~Admissible(call[c].profile, call[c].args)
    /\ Observe(c, "tool", OutcomeLabelFor("tool"))
    /\ UNCHANGED <<net, executed, metrics, audits>>
    /\ callUnchanged

\* The handler hands its request to the SDK and waits under the timeout.
SendRequest(c) ==
    /\ call[c].pc = "parsing"
    /\ ParamsBind(call[c].profile, call[c].args)
    /\ Admissible(call[c].profile, call[c].args)
    /\ call' = [call EXCEPT ![c].pc = "awaiting", ![c].attempt = 1]
    /\ net' = [net EXCEPT ![c][1] = "flying"]
    /\ UNCHANGED <<executed, metrics, audits>>
    /\ callUnchanged

\* The SDK takes the attempt for lost (throttled, reset, 5xx) and tries again.
\* The attempt given up may still be on its way.
SdkRetry(c) ==
    /\ call[c].pc = "awaiting"
    /\ call[c].attempt < MaxAttempts
    /\ net[c][call[c].attempt] \in {"flying", "lost"}
    /\ call' = [call EXCEPT ![c].attempt = @ + 1]
    /\ net' = [net EXCEPT ![c][call[c].attempt + 1] = "flying"]
    /\ UNCHANGED <<executed, metrics, audits>>
    /\ callUnchanged

\* The SDK returns an error: DynamoDB refused the request, or the connection
\* failed in a way that is not retried or was retried often enough.
SdkFails(c) ==
    /\ call[c].pc = "awaiting"
    /\ net[c][call[c].attempt] # "acked"
    /\ Observe(c, "transport", OutcomeLabelFor("transport"))
    /\ UNCHANGED <<net, executed, metrics, audits>>
    /\ callUnchanged

\* Variant: a request that is out is reported done before it is answered.
SdkSucceedsEarly(c) ==
    /\ call[c].pc = "awaiting"
    /\ net[c][call[c].attempt] \in {"flying", "acked"}
    /\ Observe(c, "ok", OutcomeLabelFor("ok"))
    /\ UNCHANGED <<net, executed, metrics, audits>>
    /\ callUnchanged

SdkSucceeds(c) ==
    /\ call[c].pc = "awaiting"
    /\ net[c][call[c].attempt] = "acked"
    /\ Observe(c, "ok", OutcomeLabelFor("ok"))
    /\ UNCHANGED <<net, executed, metrics, audits>>
    /\ callUnchanged

\* Variant: the deadline is only looked at between attempts.
TimeOutBetweenAttempts(c) ==
    /\ call[c].pc = "awaiting"
    /\ net[c][call[c].attempt] # "flying"
    /\ Observe(c, "timeout", OutcomeLabelFor("timeout"))
    /\ UNCHANGED <<net, executed, metrics, audits>>
    /\ callUnchanged

\* The call's timer runs out: the SDK's future is dropped, the attempts that
\* are under way are not recalled.
TimeOut(c) ==
    /\ call[c].pc = "awaiting"
    /\ Observe(c, "timeout", OutcomeLabelFor("timeout"))
    /\ UNCHANGED <<net, executed, metrics, audits>>
    /\ callUnchanged

EmitMetrics(c) ==
    /\ call[c].pc = "metrics"
    /\ metrics' = [metrics EXCEPT ![c] = Append(@, call[c].label)]
    /\ call' = [call EXCEPT ![c].pc =
                  IF AuditActionFor(call[c].label) = <<>>
                  THEN "shaping" ELSE "audit"]
    /\ UNCHANGED <<net, executed, audits>>
    /\ callUnchanged

EmitAudit(c) ==
    /\ call[c].pc = "audit"
    /\ audits' = [audits EXCEPT ![c] = @ \o AuditActionFor(call[c].label)]
    /\ call' = [call EXCEPT ![c].pc = "shaping"]
    /\ UNCHANGED <<net, executed, metrics>>
    /\ callUnchanged

\* Variant: the answer is shaped by the binding now registered.
ReturnResponseReread(c) ==
    /\ call[c].pc = "shaping"
    /\ call' = [call EXCEPT
                  ![c].pc = "returned",
                  ![c].response =
                     IF call[c].result = "not_found" THEN "not_found"
                     ELSE ResponseFor(profiles[call[c].name], call[c].args,
                                      call[c].result)]
    /\ UNCHANGED <<net, executed, metrics, audits>>
    /\ callUnchanged

ReturnResponse(c) ==
    /\ call[c].pc = "shaping"
    /\ call' = [call EXCEPT
                  ![c].pc = "returned",
                  ![c].response = ResponseFor(call[c].profile, call[c].args,
                                              call[c].result)]
    /\ UNCHANGED <<net, executed, metrics, audits>>
    /\ callUnchanged

-----------------------------------------------------------------------------
(* DynamoDB and the network                                                *)

\* DynamoDB answers a key value of the wrong type with a validation error.
DynamoExecutes(c, k) ==
    /\ net[c][k] = "flying"
    /\ KeysTyped(call[c].profile, call[c].args)
    /\ net' = [net EXCEPT ![c][k] = "acked"]
    /\ executed' = [executed EXCEPT ![c] = @ \cup {k}]
    /\ UNCHANGED <<call, metrics, audits>>
    /\ callUnchanged

\* A validation error, a failed condition, missing permissions.
DynamoRefuses(c, k) ==
    /\ net[c][k] = "flying"
    /\ net' = [net EXCEPT ![c][k] = "refused"]
    /\ UNCHANGED <<call, executed, metrics, audits>>
    /\ callUnchanged

\* The request is lost or throttled, or its answer is lost while the SDK still
\* waits for one.
LoseAttempt(c, k) ==
    /\ \/ net[c][k] = "flying"
       \/ net[c][k] \in {"acked", "refused"} /\ call[c].pc = "awaiting"
    /\ net' = [net EXCEPT ![c][k] = "lost"]
    /\ UNCHANGED <<call, executed, metrics, audits>>
    /\ callUnchanged

-----------------------------------------------------------------------------

\* Every call the host makes has come to its end.
Quiescent ==
    /\ \A r \in Reg : reg[r].pc \in {"registered", "rejected"}
    /\ \A c \in Call : call[c].pc = "returned"
    /\ UNCHANGED vars

Register(r) ==
    \/ \E n \in Name, b \in Binding : BeginRegister(r, n, b)
    \/ FinishBuild(r) \/ TakeWriteLock(r) \/ InsertProfile(r)

Execute(c) ==
    \/ \E n \in Name, a \in Args : BeginExecute(c, n, a)
    \/ LookupProfile(c)
    \/ RejectPayload(c) \/ RejectParams(c) \/ RejectRequest(c)
    \/ SendRequest(c) \/ SdkRetry(c) \/ SdkFails(c) \/ SdkSucceeds(c)
    \/ TimeOut(c)
    \/ EmitMetrics(c) \/ EmitAudit(c) \/ ReturnResponse(c)

Dynamo(c, k) ==
    DynamoExecutes(c, k) \/ DynamoRefuses(c, k) \/ LoseAttempt(c, k)

Next ==
    \/ \E r \in Reg : Register(r)
    \/ \E c \in Call : Execute(c)
    \/ \E c \in Call, k \in Attempts : Dynamo(c, k)
    \/ Quiescent

Spec == Init /\ [][Next]_vars

\* What the plugin's own threads do once a call is made.
LocalStep(c) ==
    \/ LookupProfile(c)
    \/ RejectPayload(c) \/ RejectParams(c) \/ RejectRequest(c)
    \/ SendRequest(c)
    \/ EmitMetrics(c) \/ EmitAudit(c) \/ ReturnResponse(c)

\* The plugin's threads run, its timers fire and its lock is handed on. The
\* credential chain, the SDK, the network and DynamoDB owe nothing.
Fairness ==
    /\ \A c \in Call : WF_vars(LocalStep(c)) /\ WF_vars(TimeOut(c))
    /\ \A r \in Reg : WF_vars(TakeWriteLock(r)) /\ WF_vars(InsertProfile(r))

FairSpec == Spec /\ Fairness

-----------------------------------------------------------------------------
(* Safety                                                                  *)

Returned(c) == call[c].pc = "returned"

\* The resource surface has no uri to put around what the operation returned:
\* the one answer that is an error though the operation was carried out.
DoneWithoutUri(c) ==
    /\ call[c].response = "tool_error"
    /\ call[c].profile.surface = "resource"
    /\ ~ResourceUriKnown(call[c].profile, call[c].args)
    /\ executed[c] # {}

\* Every answered call was counted exactly once, under the outcome its caller
\* was told, and audited exactly when its caller was told of a failure, under
\* that failure, whichever of the four emit_host_observability calls of execute
\* it came by. There is one exception and no other: an operation carried out
\* for a resource without a uri (lib.rs:522) counts as ok and is not audited,
\* though its caller is told of an error. A name without a binding is counted
\* and, as audit_action_for_outcome says, not audited.
ObservedOnce ==
    \A c \in Call : Returned(c) =>
        LET told == call[c].response
            label == metrics[c][1]
            done == told \in {"body", "contents", "messages"} \/ DoneWithoutUri(c)
        IN  /\ Len(metrics[c]) = 1
            /\ label = "ok" <=> done
            /\ label = "profile_not_found" <=> told = "not_found"
            /\ label = "timeout" <=> told = "timeout"
            /\ label = "transport_error" <=> told = "transport"
            /\ label \in {"tool_error", "invalid_spec"}
                  <=> told = "tool_error" /\ ~done
            /\ Len(audits[c]) = IF done \/ told = "not_found" THEN 0 ELSE 1
            /\ audits[c] = <<"request_timeout">> <=> told = "timeout"
            /\ audits[c] = <<"request_rejected">> <=> label = "tool_error"
            /\ audits[c] = <<"request_failed">>
                  <=> told = "transport" \/ label = "invalid_spec"

\* A call that was counted as rejected, or found no binding, has never had a
\* request on the wire, so no later delivery can carry it out either.
RejectedNeverSent ==
    \A c \in Call :
        call[c].label \in {"tool_error", "invalid_spec", "profile_not_found"}
            => /\ \A k \in Attempts : net[c][k] = "unsent"
               /\ executed[c] = {}

\* A successful answer is backed by an execution at DynamoDB, of a request
\* the binding's key schema and params allow.
AcknowledgedWasExecuted ==
    \A c \in Call : call[c].response \in {"body", "contents", "messages"} =>
        /\ executed[c] # {}
        /\ ParamsBind(call[c].profile, call[c].args)
        /\ Admissible(call[c].profile, call[c].args)

\* What a call works with, and what the registry serves, is the binding of a
\* registration of that name that was accepted and has completed: never one
\* that is still being built or was refused.
ServedBindingWasRegistered ==
    LET completed(n, b) == \E r \in Reg :
            reg[r].pc = "registered" /\ reg[r].name = n /\ reg[r].binding = b
        served(n, b) == b # None => b.accepted /\ completed(n, b)
    IN  /\ \A n \in Name : served(n, profiles[n])
        /\ \A c \in Call : served(call[c].name, call[c].profile)

\* No call is told not-found after a registration of its name has completed,
\* also while another registration of the name is replacing the binding.
NeverMissesARegisteredName ==
    [][\A c \in Call : \A r \in Reg :
         call'[c].result = "not_found" /\ call[c].result # "not_found"
             => ~(reg[r].pc = "registered" /\ reg[r].name = call[c].name)]_vars

\* DynamoDB carries out a request whose call has been answered only if the
\* caller was told of a timeout or a failure, or the SDK had sent it again.
StragglerExplained ==
    [][\A c \in Call : Returned(c) /\ executed'[c] # executed[c]
         => \/ call[c].response \in {"timeout", "transport"}
            \/ call[c].attempt > 1]_vars

\* The state of the service a state of the backend stands for: a registration
\* has happened once it is in the registry, a call is bound by its one read of
\* the registry and answered when it returns.
RegStage(pc) == CASE pc = "idle"       -> "idle"
                  [] pc = "registered" -> "done"
                  [] pc = "rejected"   -> "refused"
                  [] OTHER             -> "pending"

CallStage(pc) == CASE pc = "idle"     -> "idle"
                   [] pc = "lookup"   -> "pending"
                   [] pc = "returned" -> "answered"
                   [] OTHER           -> "bound"

RegView(r) == [st |-> RegStage(reg[r].pc), name |-> reg[r].name,
               binding |-> reg[r].binding]

CallView(c) == [st |-> CallStage(call[c].pc), name |-> call[c].name,
                args |-> call[c].args, binding |-> call[c].profile,
                answer |-> call[c].response]

Service == INSTANCE BindingService WITH
    bind <- profiles,
    regs <- [r \in Reg |-> RegView(r)],
    calls <- [c \in Call |-> CallView(c)],
    effects <- executed

\* The registry, its lock, the early returns, the SDK's attempts and the timer
\* together behave as the service: registrations and lookups are atomic, a
\* call keeps the binding it found, and every answer is one the binding, the
\* arguments and what DynamoDB did permit.
ServiceSpec == Service!Spec

-----------------------------------------------------------------------------
(* Why the safety properties hold: an inductive invariant                  *)

\* A registration that is under way or done was accepted, the lock is held by
\* the one that is about to insert, and a name once registered stays so.
RegistrationsInv ==
    \A r \in Reg :
        /\ reg[r].pc # "idle" => reg[r].name # None /\ reg[r].binding # None
        /\ reg[r].pc \notin {"idle", "rejected"} => reg[r].binding.accepted
        /\ reg[r].pc = "locked" <=> writer = r
        /\ reg[r].pc = "registered" => profiles[reg[r].name] # None

\* The call's binding and arguments allow a request to be sent.
Lawful(c) ==
    /\ call[c].profile # None
    /\ ParamsBind(call[c].profile, call[c].args)
    /\ Admissible(call[c].profile, call[c].args)

Undecided == {"idle", "lookup", "parsing", "awaiting"}

\* How far the call has come and what it knows go together.
ProgressInv(c) ==
    /\ call[c].pc # "idle" => call[c].name # None /\ call[c].args # None
    /\ call[c].pc \in {"idle", "lookup"} => call[c].profile = None
    /\ call[c].pc = "parsing" => call[c].profile # None
    /\ call[c].pc \in {"idle", "lookup", "parsing"} => call[c].attempt = 0
    /\ call[c].pc = "awaiting" => call[c].attempt # 0
    /\ call[c].pc \in Undecided <=> call[c].result = "none"
    /\ call[c].result = "none" => call[c].label = "none"
    /\ call[c].result = "not_found" <=>
          call[c].profile = None /\ call[c].pc \notin Undecided

\* Only a lawful request is attempted; a rejected one never was.
AttemptInv(c) ==
    /\ call[c].attempt # 0 => Lawful(c)
    /\ call[c].result \in {"tool", "not_found"} =>
          call[c].attempt = 0 /\ ~Lawful(c)
    /\ call[c].result \in {"ok", "timeout", "transport"} => call[c].attempt # 0

\* What the network holds of the call's attempts.
NetInv(c) ==
    /\ \A k \in Attempts : k > call[c].attempt => net[c][k] = "unsent"
    /\ \A k \in Attempts : net[c][k] = "acked" => k \in executed[c]
    /\ \A k \in executed[c] : net[c][k] \notin {"unsent", "flying"}
    /\ call[c].result = "ok" =>
          call[c].attempt \in executed[c]

\* The label fits the result.
LabelInv(c) ==
    /\ call[c].result = "ok"        => call[c].label = "ok"
    /\ call[c].result = "timeout"   => call[c].label = "timeout"
    /\ call[c].result = "transport" => call[c].label = "transport_error"
    /\ call[c].result = "not_found" => call[c].label = "profile_not_found"
    /\ call[c].result = "tool"      => call[c].label \in {"tool_error", "invalid_spec"}

\* What has been emitted and answered so far.
EmissionInv(c) ==
    /\ call[c].pc \in Undecided \cup {"metrics"} => metrics[c] = <<>>
    /\ call[c].pc \in {"audit", "shaping", "returned"} =>
          metrics[c] = <<call[c].label>>
    /\ call[c].pc \notin {"shaping", "returned"} => audits[c] = <<>>
    /\ call[c].pc \in {"shaping", "returned"} =>
          audits[c] = AuditActionFor(call[c].label)
    /\ call[c].pc # "returned" => call[c].response = "none"
    /\ call[c].pc = "returned" =>
          call[c].response = ResponseFor(call[c].profile, call[c].args,
                                         call[c].result)

CallInv(c) ==
    ProgressInv(c) /\ AttemptInv(c) /\ NetInv(c) /\ LabelInv(c) /\ EmissionInv(c)

\* Each registration and each call is in step with itself, and bindings come
\* from completed registrations only.
BackendInv ==
    /\ TypeOK
    /\ RegistrationsInv
    /\ ServedBindingWasRegistered
    /\ \A c \in Call : CallInv(c)

-----------------------------------------------------------------------------
(* Liveness                                                                *)

\* Every call is answered, though neither the SDK nor DynamoDB ever answers
\* and registrations hang in the credential chain.
EveryCallAnswered ==
    \A c \in Call : call[c].pc = "lookup" ~> Returned(c)

\* Once its client is built, a registration takes effect, however many calls
\* are waiting for DynamoDB.
RegistrationTakesEffect ==
    \A r \in Reg : reg[r].pc = "built" ~> reg[r].pc = "registered"
=============================================================================
