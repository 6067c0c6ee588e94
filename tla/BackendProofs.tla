--------------------------- MODULE BackendProofs ---------------------------
(***************************************************************************)
(* Proofs about DynamodbBackend, for every choice of its constants.        *)
(*                                                                         *)
(* BackendInv is inductive.  A step of a registration leaves every call    *)
(* alone; a step of a call, or of an attempt of it, leaves the registry    *)
(* and every other call alone, so that what is left to show of such a step *)
(* is CallInv of the one call (lemma OneCallSteps); and the seven ways in  *)
(* which a call gets its result differ only in result and label (lemma     *)
(* FinishKeeps).                                                           *)
(***************************************************************************)
EXTENDS DynamodbBackend, TLAPS

-----------------------------------------------------------------------------
(* Lemmas                                                                  *)

\* The answer a result turns into is one of the answers.
LEMMA ResponseType ==
  ASSUME NEW b, NEW a, NEW result
  PROVE  ResponseFor(b, a, result) \in Responses
BY DEF ResponseFor, SurfaceBody, Responses

\* The audit actions of a label are a sequence of audit actions.
LEMMA AuditType ==
  ASSUME NEW label
  PROVE  AuditActionFor(label) \in Seq(AuditActions)
<1>1. CASE label = "timeout"
  BY <1>1 DEF AuditActionFor, AuditActions
<1>2. CASE label = "transport_error"
  BY <1>2 DEF AuditActionFor, AuditActions
<1>3. CASE label = "invalid_spec"
  BY <1>3 DEF AuditActionFor, AuditActions
<1>4. CASE label = "tool_error"
  BY <1>4 DEF AuditActionFor, AuditActions
<1>5. CASE label \notin {"timeout", "transport_error", "invalid_spec", "tool_error"}
  BY <1>5 DEF AuditActionFor, AuditActions
<1> QED
  BY <1>1, <1>2, <1>3, <1>4, <1>5

\* A call invariant reads only the call's own part of the state.
LEMMA CallInvLocal ==
  ASSUME NEW d, CallInv(d), call'[d] = call[d], net'[d] = net[d],
         executed'[d] = executed[d], metrics'[d] = metrics[d],
         audits'[d] = audits[d]
  PROVE  CallInv(d)'
BY DEF CallInv, ProgressInv, AttemptInv, NetInv, LabelInv, EmissionInv, Lawful

\* A call that has been made works with arguments and a name of the model.
LEMMA CallFields ==
  ASSUME BackendInv, NEW c \in Call
  PROVE  /\ call[c] \in CallRecords
         /\ call[c].pc # "idle" => call[c].name \in Name /\ call[c].args \in Args
BY DEF BackendInv, TypeOK, CallRecords, CallInv, ProgressInv

\* A step that changes one call, and that call's attempts and emissions, keeps
\* the invariant if it keeps that call's part of it.
LEMMA OneCallSteps ==
  ASSUME BackendInv, NEW c \in Call, NEW rec \in CallRecords,
         call' = [call EXCEPT ![c] = rec],
         UNCHANGED <<profiles, writer, reg>>,
         net' \in [Call -> [Attempts -> AttemptStates]],
         executed' \in [Call -> SUBSET Attempts],
         metrics' \in [Call -> Seq(Labels)],
         audits' \in [Call -> Seq(AuditActions)],
         \A d \in Call \ {c} :
            /\ net'[d] = net[d] /\ executed'[d] = executed[d]
            /\ metrics'[d] = metrics[d] /\ audits'[d] = audits[d],
         \/ rec.profile = None
         \/ rec.profile = call[c].profile /\ rec.name = call[c].name
         \/ rec.name \in Name /\ rec.profile = profiles[rec.name],
         CallInv(c)'
  PROVE  BackendInv'
<1>1. TypeOK'
  BY DEF BackendInv, TypeOK
<1>2. RegistrationsInv'
  BY DEF BackendInv, RegistrationsInv
<1>3. call'[c] = rec /\ \A d \in Call \ {c} : call'[d] = call[d]
  BY DEF BackendInv, TypeOK
<1>4. ServedBindingWasRegistered'
  <2> DEFINE served(n, b) ==
               b # None => /\ b.accepted
                           /\ \E r \in Reg : /\ reg[r].pc = "registered"
                                            /\ reg[r].name = n
                                            /\ reg[r].binding = b
  <2>1. \A n \in Name : served(n, profiles[n])
    BY DEF BackendInv, ServedBindingWasRegistered
  <2>2. \A d \in Call : served(call[d].name, call[d].profile)
    BY DEF BackendInv, ServedBindingWasRegistered
  <2>6. \A n : served(n, None)
    OBVIOUS
  <2> HIDE DEF served
  <2>3. served(rec.name, rec.profile)
    BY <2>6, <2>1, <2>2
  <2>4. \A d \in Call : served(call'[d].name, call'[d].profile)
    BY <1>3, <2>2, <2>3
  <2>5. reg' = reg /\ profiles' = profiles
    OBVIOUS
  <2> QED
    BY <2>1, <2>4, <2>5 DEF ServedBindingWasRegistered, served
<1>5. ASSUME NEW d \in Call
      PROVE  CallInv(d)'
  <2>1. CASE d = c
    BY <2>1
  <2>2. CASE d # c
    BY <2>2, <1>3, CallInvLocal DEF BackendInv
  <2> QED
    BY <2>1, <2>2
<1> QED
  BY <1>1, <1>2, <1>4, <1>5 DEF BackendInv

\* A call gets its result.
LEMMA FinishKeeps ==
  ASSUME BackendInv, NEW c \in Call, NEW result \in Results,
         NEW label \in Labels, Observe(c, result, label),
         UNCHANGED <<profiles, writer, reg, net, executed, metrics, audits>>,
         call[c].pc \in Undecided \ {"idle"},
         result = "not_found" <=> call[c].profile = None,
         result \in {"tool", "not_found"} =>
            call[c].attempt = 0 /\ ~Lawful(c),
         result \in {"ok", "timeout", "transport"} => call[c].attempt # 0,
         result = "ok" => call[c].attempt \in executed[c],
         result = "ok"        => label = "ok",
         result = "timeout"   => label = "timeout",
         result = "transport" => label = "transport_error",
         result = "not_found" => label = "profile_not_found",
         result = "tool"      => label \in {"tool_error", "invalid_spec"}
  PROVE  BackendInv'
<1> DEFINE rec == [call[c] EXCEPT !.pc = "metrics", !.result = result,
                                  !.label = label]
<1>1. call[c] \in CallRecords /\ CallInv(c)
  BY CallFields DEF BackendInv
<1>2. "metrics" \in CallPCs
  BY DEF CallPCs
<1>3. rec \in CallRecords
  BY <1>1, <1>2 DEF CallRecords
<1>4. call' = [call EXCEPT ![c] = rec]
  BY DEF Observe
<1>5. /\ rec.pc = "metrics" /\ rec.result = result /\ rec.label = label
      /\ rec.name = call[c].name /\ rec.args = call[c].args
      /\ rec.profile = call[c].profile /\ rec.attempt = call[c].attempt
      /\ rec.response = call[c].response
  BY <1>1 DEF CallRecords
<1>6. call'[c] = rec
  BY <1>4 DEF BackendInv, TypeOK
<1> HIDE DEF rec
<1>7. ProgressInv(c)'
  BY <1>1, <1>5, <1>6 DEF ProgressInv, CallInv, Undecided, Results
<1>8. Lawful(c)' <=> Lawful(c)
  BY <1>5, <1>6 DEF Lawful
<1>9. AttemptInv(c)'
  BY <1>1, <1>5, <1>6, <1>8 DEF AttemptInv, CallInv
<1>10. NetInv(c)'
  BY <1>1, <1>5, <1>6 DEF NetInv, CallInv
<1>11. LabelInv(c)'
  BY <1>5, <1>6 DEF LabelInv
<1>12. EmissionInv(c)'
  BY <1>1, <1>5, <1>6 DEF EmissionInv, CallInv, Undecided
<1>13. CallInv(c)'
  BY <1>7, <1>9, <1>10, <1>11, <1>12 DEF CallInv
<1> QED
  BY <1>3, <1>4, <1>5, <1>13, OneCallSteps DEF BackendInv, TypeOK

-----------------------------------------------------------------------------
(* The steps of a registration                                             *)

\* The initial state satisfies the invariant.
LEMMA InvInit == Init => BackendInv
<1> SUFFICES ASSUME Init
             PROVE  BackendInv
  OBVIOUS
<1>1. TypeOK
  BY AttemptsAssumption DEF Init, TypeOK, RegRecords, CallRecords, RegPCs,
     CallPCs, Attempts, AttemptStates
<1>2. RegistrationsInv
  BY NoneAssumption DEF Init, RegistrationsInv
<1>3. ServedBindingWasRegistered
  BY DEF Init, ServedBindingWasRegistered
<1>4. ASSUME NEW c \in Call
      PROVE  CallInv(c)
  BY DEF Init, CallInv, ProgressInv, AttemptInv, NetInv, LabelInv, EmissionInv,
     Undecided
<1> QED
  BY <1>1, <1>2, <1>3, <1>4 DEF BackendInv

\* A step of a registration keeps the invariant.
LEMMA RegisterKeeps ==
  ASSUME BackendInv, NEW r \in Reg, Register(r)
  PROVE  BackendInv'
<1>1. UNCHANGED <<call, net, executed, metrics, audits>>
  BY DEF Register, BeginRegister, FinishBuild, TakeWriteLock, InsertProfile,
         regUnchanged
<1>2. \A c \in Call : CallInv(c)'
  BY <1>1, CallInvLocal DEF BackendInv
<1> SUFFICES TypeOK' /\ RegistrationsInv' /\ ServedBindingWasRegistered'
  BY <1>2 DEF BackendInv
<1>3. TypeOK /\ RegistrationsInv /\ ServedBindingWasRegistered
  BY DEF BackendInv
<1>4. reg[r] \in RegRecords /\ (reg[r].pc # "idle" => reg[r].name \in Name /\ reg[r].binding \in Binding)
  BY <1>3 DEF TypeOK, RegistrationsInv, RegRecords
<1>5. ASSUME NEW n \in Name, NEW b \in Binding, BeginRegister(r, n, b)
      PROVE  TypeOK' /\ RegistrationsInv' /\ ServedBindingWasRegistered'
  <2>1. TypeOK'
    BY <1>1, <1>3, <1>5 DEF TypeOK, BeginRegister, RegRecords, RegPCs
  <2>2. RegistrationsInv'
    BY <1>3, <1>5, NoneAssumption DEF TypeOK, RegistrationsInv, BeginRegister
  <2>3. ServedBindingWasRegistered'
    BY <1>1, <1>3, <1>5 DEF TypeOK, BeginRegister, ServedBindingWasRegistered
  <2> QED
    BY <2>1, <2>2, <2>3
<1>6. CASE FinishBuild(r)
  <2>1. TypeOK'
    BY <1>1, <1>3, <1>6 DEF TypeOK, FinishBuild, RegRecords, RegPCs
  <2>2. RegistrationsInv'
    BY <1>3, <1>6 DEF TypeOK, RegRecords, RegistrationsInv, FinishBuild
  <2>3. ServedBindingWasRegistered'
    BY <1>1, <1>3, <1>6 DEF TypeOK, RegRecords, FinishBuild, ServedBindingWasRegistered
  <2> QED
    BY <2>1, <2>2, <2>3
<1>7. CASE TakeWriteLock(r)
  <2>1. TypeOK'
    BY <1>1, <1>3, <1>7 DEF TypeOK, TakeWriteLock, RegRecords, RegPCs
  <2>2. RegistrationsInv'
    BY <1>3, <1>7, NoneAssumption DEF TypeOK, RegRecords, RegistrationsInv, TakeWriteLock
  <2>3. ServedBindingWasRegistered'
    BY <1>1, <1>3, <1>7 DEF TypeOK, RegRecords, TakeWriteLock, ServedBindingWasRegistered
  <2> QED
    BY <2>1, <2>2, <2>3
<1>8. CASE InsertProfile(r)
  <2>1. TypeOK'
    BY <1>1, <1>3, <1>4, <1>8 DEF TypeOK, InsertProfile, RegRecords, RegPCs
  <2>2. RegistrationsInv'
    BY <1>3, <1>8, NoneAssumption DEF TypeOK, RegRecords, RegistrationsInv, InsertProfile
  <2>3. ServedBindingWasRegistered'
    <3> DEFINE completed(n, b) ==
                 \E q \in Reg : /\ reg[q].pc = "registered"
                               /\ reg[q].name = n /\ reg[q].binding = b
               completedNext(n, b) ==
                 \E q \in Reg : /\ reg'[q].pc = "registered"
                               /\ reg'[q].name = n /\ reg'[q].binding = b
    <3>1. \A n, b : completed(n, b) => completedNext(n, b)
      BY <1>3, <1>8 DEF TypeOK, InsertProfile
    <3>2. completedNext(reg[r].name, reg[r].binding) /\ reg[r].binding.accepted
      <4>1. /\ reg'[r].pc = "registered" /\ reg'[r].name = reg[r].name
            /\ reg'[r].binding = reg[r].binding
        BY <1>3, <1>8 DEF TypeOK, RegRecords, InsertProfile
      <4>2. reg[r].binding.accepted
        BY <1>3, <1>8 DEF InsertProfile, RegistrationsInv
      <4> QED
        BY <4>1, <4>2
    <3>3. \A n \in Name : profiles'[n] # None =>
             profiles'[n].accepted /\ completedNext(n, profiles'[n])
      <4>1. \A n \in Name : profiles'[n] =
               IF n = reg[r].name THEN reg[r].binding ELSE profiles[n]
        BY <1>3, <1>8 DEF TypeOK, InsertProfile
      <4>2. \A n \in Name : profiles[n] # None =>
               profiles[n].accepted /\ completed(n, profiles[n])
        BY <1>3 DEF ServedBindingWasRegistered
      <4> HIDE DEF completed, completedNext
      <4> QED
        BY <4>1, <4>2, <3>1, <3>2
    <3>4. \A c \in Call : call[c].profile # None =>
             call[c].profile.accepted /\ completed(call[c].name, call[c].profile)
      BY <1>3 DEF ServedBindingWasRegistered
    <3>5. \A c \in Call : call'[c].profile # None =>
             call'[c].profile.accepted /\ completedNext(call'[c].name, call'[c].profile)
      <4> HIDE DEF completed, completedNext
      <4> QED
        BY <1>1, <3>1, <3>4
    <3> QED
      BY <3>3, <3>5 DEF ServedBindingWasRegistered
  <2> QED
    BY <2>1, <2>2, <2>3
<1> QED
  BY <1>5, <1>6, <1>7, <1>8 DEF Register

-----------------------------------------------------------------------------
(* The steps of a call                                                     *)

\* A call that waits for its result, with everything not yet decided.
LEMMA PendingFields ==
  ASSUME BackendInv, NEW c \in Call, call[c].pc \in Undecided
  PROVE  /\ call[c].result = "none" /\ call[c].label = "none"
         /\ metrics[c] = <<>> /\ audits[c] = <<>>
         /\ call[c].response = "none"
BY DEF BackendInv, CallInv, ProgressInv, EmissionInv, Undecided

\* The host makes a call.
LEMMA BeginExecuteKeeps ==
  ASSUME BackendInv, NEW c \in Call, NEW n \in Name, NEW a \in Args,
         BeginExecute(c, n, a)
  PROVE  BackendInv'
<1> DEFINE rec == [call[c] EXCEPT !.pc = "lookup", !.name = n, !.args = a]
<1>1. call[c] \in CallRecords /\ CallInv(c) /\ call[c].pc = "idle"
  BY CallFields DEF BackendInv, BeginExecute
<1>2. /\ call' = [call EXCEPT ![c] = rec]
      /\ UNCHANGED <<profiles, writer, reg, net, executed, metrics, audits>>
  BY DEF BeginExecute, callUnchanged
<1>3. rec \in CallRecords
  <2>1. "lookup" \in CallPCs
    BY DEF CallPCs
  <2> QED
    BY <1>1, <2>1 DEF CallRecords
<1>4. /\ rec.pc = "lookup" /\ rec.name = n /\ rec.args = a
      /\ rec.profile = call[c].profile /\ rec.attempt = call[c].attempt
      /\ rec.result = call[c].result /\ rec.label = call[c].label
      /\ rec.response = call[c].response
  BY <1>1 DEF CallRecords
<1>5. call'[c] = rec
  BY <1>2 DEF BackendInv, TypeOK
<1> HIDE DEF rec
<1>6. rec.profile = None /\ rec.attempt = 0 /\ rec.result = "none"
  BY <1>1, <1>4 DEF CallInv, ProgressInv, Undecided
<1>7. ProgressInv(c)'
  BY <1>1, <1>4, <1>5, <1>6, NoneAssumption DEF ProgressInv, CallInv, Undecided
<1>8. AttemptInv(c)' /\ NetInv(c)' /\ LabelInv(c)'
  BY <1>1, <1>2, <1>4, <1>5, <1>6 DEF AttemptInv, NetInv, LabelInv, CallInv
<1>9. EmissionInv(c)'
  BY <1>1, <1>2, <1>4, <1>5 DEF EmissionInv, CallInv, Undecided
<1>10. CallInv(c)'
  BY <1>7, <1>8, <1>9 DEF CallInv
<1> QED
  BY <1>2, <1>3, <1>6, <1>10, OneCallSteps DEF BackendInv, TypeOK

\* The call reads the registry.
LEMMA LookupProfileKeeps ==
  ASSUME BackendInv, NEW c \in Call, LookupProfile(c)
  PROVE  BackendInv'
<1>1. /\ call[c] \in CallRecords /\ CallInv(c) /\ call[c].pc = "lookup"
      /\ call[c].name \in Name
      /\ UNCHANGED <<profiles, writer, reg, net, executed, metrics, audits>>
  BY CallFields DEF BackendInv, LookupProfile, callUnchanged
<1>2. call[c].profile = None /\ call[c].attempt = 0
  BY <1>1 DEF CallInv, ProgressInv
<1>3. CASE profiles[call[c].name] = None
  <2>1. Observe(c, "not_found", "profile_not_found")
    BY <1>3 DEF LookupProfile
  <2>2. "not_found" \in Results /\ "profile_not_found" \in Labels
    BY DEF Results, Labels
  <2>3. ~Lawful(c)
    BY <1>2 DEF Lawful
  <2>4. call[c].pc \in Undecided \ {"idle"}
    BY <1>1 DEF Undecided
  <2> QED
    BY <1>1, <1>2, <2>1, <2>2, <2>3, <2>4, FinishKeeps
<1>4. CASE profiles[call[c].name] # None
  <2> DEFINE b == profiles[call[c].name]
             rec == [call[c] EXCEPT !.pc = "parsing", !.profile = b]
  <2>1. b \in Binding
    BY <1>1, <1>4 DEF BackendInv, TypeOK
  <2>2. call' = [call EXCEPT ![c] = rec]
    BY <1>4 DEF LookupProfile
  <2>3. "parsing" \in CallPCs
    BY DEF CallPCs
  <2> HIDE DEF b
  <2>4. rec \in CallRecords
    BY <1>1, <2>1, <2>3 DEF CallRecords
  <2>5. /\ rec.pc = "parsing" /\ rec.profile = b
        /\ rec.name = call[c].name /\ rec.args = call[c].args
        /\ rec.attempt = call[c].attempt /\ rec.result = call[c].result
        /\ rec.label = call[c].label /\ rec.response = call[c].response
    BY <1>1 DEF CallRecords
  <2>6. call'[c] = rec
    BY <2>2 DEF BackendInv, TypeOK
  <2> HIDE DEF rec
  <2>7. ProgressInv(c)'
    BY <1>1, <1>2, <2>1, <2>5, <2>6, NoneAssumption
       DEF ProgressInv, CallInv, Undecided
  <2>8. AttemptInv(c)' /\ NetInv(c)' /\ LabelInv(c)'
    BY <1>1, <1>2, <2>5, <2>6
       DEF AttemptInv, NetInv, LabelInv, CallInv, ProgressInv, Undecided
  <2>9. EmissionInv(c)'
    BY <1>1, <2>5, <2>6 DEF EmissionInv, CallInv, Undecided
  <2>10. CallInv(c)'
    BY <2>7, <2>8, <2>9 DEF CallInv
  <2>11. rec.name \in Name /\ rec.profile = profiles[rec.name]
    BY <1>1, <2>5 DEF b
  <2> QED
    BY <1>1, <2>2, <2>4, <2>10, <2>11, OneCallSteps DEF BackendInv, TypeOK
<1> QED
  BY <1>3, <1>4

\* The three refusals of a call's arguments.
LEMMA RejectKeeps ==
  ASSUME BackendInv, NEW c \in Call,
         RejectPayload(c) \/ RejectParams(c) \/ RejectRequest(c)
  PROVE  BackendInv'
<1>1. /\ CallInv(c) /\ call[c].pc = "parsing"
      /\ UNCHANGED <<profiles, writer, reg, net, executed, metrics, audits>>
  BY DEF BackendInv, RejectPayload, RejectParams, RejectRequest, callUnchanged
<1>2. call[c].profile # None /\ call[c].attempt = 0
  BY <1>1 DEF CallInv, ProgressInv
<1>3. PICK label \in {"tool_error", "invalid_spec"} : Observe(c, "tool", label)
  BY DEF RejectPayload, RejectParams, RejectRequest, OutcomeLabelFor
<1>4. ~Lawful(c)
  BY DEF RejectPayload, RejectParams, RejectRequest, Lawful, Admissible
<1>5. "tool" \in Results /\ label \in Labels
  BY DEF Results, Labels
<1>6. call[c].pc \in Undecided \ {"idle"}
  BY <1>1 DEF Undecided
<1> QED
  BY <1>1, <1>2, <1>3, <1>4, <1>5, <1>6, FinishKeeps

\* The SDK answers or the timer runs out.
LEMMA AwaitedKeeps ==
  ASSUME BackendInv, NEW c \in Call,
         SdkFails(c) \/ SdkSucceeds(c) \/ TimeOut(c)
  PROVE  BackendInv'
<1>1. /\ CallInv(c) /\ call[c] \in CallRecords /\ call[c].pc = "awaiting"
      /\ UNCHANGED <<profiles, writer, reg, net, executed, metrics, audits>>
  BY CallFields DEF BackendInv, SdkFails, SdkSucceeds, TimeOut, callUnchanged
<1>2. call[c].attempt # 0 /\ call[c].attempt \in Attempts
  BY <1>1, AttemptsAssumption DEF CallInv, ProgressInv, CallRecords, Attempts
<1>3. call[c].profile # None
  BY <1>1, <1>2 DEF CallInv, AttemptInv, Lawful
<1>4. call[c].pc \in Undecided \ {"idle"}
  BY <1>1 DEF Undecided
<1>5. CASE SdkFails(c)
  <2>1. Observe(c, "transport", "transport_error")
    BY <1>5 DEF SdkFails, OutcomeLabelFor
  <2>2. "transport" \in Results /\ "transport_error" \in Labels
    BY DEF Results, Labels
  <2> QED
    BY <1>1, <1>2, <1>3, <1>4, <2>1, <2>2, FinishKeeps
<1>6. CASE SdkSucceeds(c)
  <2>1. Observe(c, "ok", "ok")
    BY <1>6 DEF SdkSucceeds, OutcomeLabelFor
  <2>2. "ok" \in Results /\ "ok" \in Labels
    BY DEF Results, Labels
  <2>3. call[c].attempt \in executed[c]
    BY <1>1, <1>2, <1>6 DEF SdkSucceeds, CallInv, NetInv
  <2> QED
    BY <1>1, <1>2, <1>3, <1>4, <2>1, <2>2, <2>3, FinishKeeps
<1>7. CASE TimeOut(c)
  <2>1. Observe(c, "timeout", "timeout")
    BY <1>7 DEF TimeOut, OutcomeLabelFor
  <2>2. "timeout" \in Results /\ "timeout" \in Labels
    BY DEF Results, Labels
  <2> QED
    BY <1>1, <1>2, <1>3, <1>4, <2>1, <2>2, FinishKeeps
<1> QED
  BY <1>5, <1>6, <1>7

\* The request goes out.
LEMMA SendRequestKeeps ==
  ASSUME BackendInv, NEW c \in Call, SendRequest(c)
  PROVE  BackendInv'
<1> DEFINE rec == [call[c] EXCEPT !.pc = "awaiting", !.attempt = 1]
<1>1. /\ call[c] \in CallRecords /\ CallInv(c) /\ call[c].pc = "parsing"
      /\ call' = [call EXCEPT ![c] = rec]
      /\ net' = [net EXCEPT ![c][1] = "flying"]
      /\ UNCHANGED <<profiles, writer, reg, executed, metrics, audits>>
  BY CallFields DEF BackendInv, SendRequest, callUnchanged
<1>2. Lawful(c) /\ call[c].attempt = 0 /\ call[c].result = "none"
  BY <1>1 DEF SendRequest, Lawful, CallInv, ProgressInv, Undecided
<1>3. "awaiting" \in CallPCs /\ 1 \in Attempts /\ 1 \in 0 .. MaxAttempts
  BY AttemptsAssumption DEF CallPCs, Attempts
<1>4. rec \in CallRecords
  BY <1>1, <1>3 DEF CallRecords
<1>5. /\ rec.pc = "awaiting" /\ rec.attempt = 1
      /\ rec.name = call[c].name /\ rec.args = call[c].args
      /\ rec.profile = call[c].profile /\ rec.result = call[c].result
      /\ rec.label = call[c].label /\ rec.response = call[c].response
  BY <1>1 DEF CallRecords
<1>6. call'[c] = rec
  BY <1>1 DEF BackendInv, TypeOK
<1> HIDE DEF rec
<1>7. net' \in [Call -> [Attempts -> AttemptStates]]
  BY <1>1, <1>3 DEF BackendInv, TypeOK, AttemptStates
<1>8. /\ net'[c][1] = "flying"
      /\ \A k \in Attempts : k # 1 => net'[c][k] = net[c][k]
      /\ \A d \in Call \ {c} : net'[d] = net[d]
  BY <1>1, <1>3 DEF BackendInv, TypeOK
<1>9. \A k \in Attempts : k > 0 /\ net[c][k] = "unsent" /\ k \notin executed[c]
  BY <1>1, <1>2 DEF CallInv, NetInv, Attempts
<1>10. executed[c] \subseteq Attempts
  BY DEF BackendInv, TypeOK
<1>11. ProgressInv(c)'
  BY <1>1, <1>2, <1>5, <1>6 DEF ProgressInv, CallInv, Undecided
<1>12. AttemptInv(c)' /\ LabelInv(c)'
  <2>1. Lawful(c)'
    BY <1>2, <1>5, <1>6 DEF Lawful
  <2> QED
    BY <1>2, <1>5, <1>6, <2>1 DEF AttemptInv, LabelInv
<1>13. NetInv(c)'
  BY <1>1, <1>2, <1>5, <1>6, <1>8, <1>9, <1>10 DEF NetInv, Attempts
<1>14. EmissionInv(c)'
  BY <1>1, <1>5, <1>6 DEF EmissionInv, CallInv, Undecided
<1>15. CallInv(c)'
  BY <1>11, <1>12, <1>13, <1>14 DEF CallInv
<1> QED
  BY <1>1, <1>4, <1>5, <1>7, <1>8, <1>15, OneCallSteps DEF BackendInv, TypeOK

\* The SDK sends the request again.
LEMMA SdkRetryKeeps ==
  ASSUME BackendInv, NEW c \in Call, SdkRetry(c)
  PROVE  BackendInv'
<1> DEFINE old == call[c].attempt
           rec == [call[c] EXCEPT !.attempt = old + 1]
<1>1. /\ call[c] \in CallRecords /\ CallInv(c) /\ call[c].pc = "awaiting"
      /\ call' = [call EXCEPT ![c] = rec]
      /\ net' = [net EXCEPT ![c][old + 1] = "flying"]
      /\ UNCHANGED <<profiles, writer, reg, executed, metrics, audits>>
      /\ old < MaxAttempts
  BY CallFields DEF BackendInv, SdkRetry, callUnchanged
<1>2. Lawful(c) /\ old # 0 /\ call[c].result = "none"
  BY <1>1 DEF CallInv, ProgressInv, AttemptInv, Undecided
<1>3. old \in Nat /\ old + 1 \in Attempts /\ old + 1 \in 0 .. MaxAttempts
  BY <1>1, <1>2, AttemptsAssumption DEF CallRecords, Attempts
<1> HIDE DEF old
<1>4. rec \in CallRecords
  BY <1>1, <1>3 DEF CallRecords
<1>5. /\ rec.pc = call[c].pc /\ rec.attempt = old + 1
      /\ rec.name = call[c].name /\ rec.args = call[c].args
      /\ rec.profile = call[c].profile /\ rec.result = call[c].result
      /\ rec.label = call[c].label /\ rec.response = call[c].response
  BY <1>1 DEF CallRecords
<1>6. call'[c] = rec
  BY <1>1 DEF BackendInv, TypeOK
<1> HIDE DEF rec
<1>7. net' \in [Call -> [Attempts -> AttemptStates]]
  BY <1>1, <1>3 DEF BackendInv, TypeOK, AttemptStates
<1>8. /\ net'[c][old + 1] = "flying"
      /\ \A k \in Attempts : k # old + 1 => net'[c][k] = net[c][k]
      /\ \A d \in Call \ {c} : net'[d] = net[d]
  BY <1>1, <1>3 DEF BackendInv, TypeOK
<1>9. \A k \in Attempts : k > old => net[c][k] = "unsent" /\ k \notin executed[c]
  BY <1>1 DEF CallInv, NetInv, old
<1>10. executed[c] \subseteq Attempts
  BY DEF BackendInv, TypeOK
<1>11. ProgressInv(c)'
  BY <1>1, <1>2, <1>3, <1>5, <1>6 DEF ProgressInv, CallInv, Undecided
<1>12. AttemptInv(c)' /\ LabelInv(c)'
  <2>1. Lawful(c)'
    BY <1>2, <1>5, <1>6 DEF Lawful
  <2> QED
    BY <1>2, <1>5, <1>6, <2>1 DEF AttemptInv, LabelInv
<1>13. NetInv(c)'
  <2>1. \A k \in Attempts : k > old + 1 => k > old
    BY <1>3 DEF Attempts
  <2>2. old + 1 \notin executed[c]
    BY <1>3, <1>9
  <2>3. NetInv(c)
    BY <1>1 DEF CallInv
  <2> QED
    BY <1>1, <1>2, <1>3, <1>5, <1>6, <1>8, <1>9, <1>10, <2>1, <2>2, <2>3
       DEF NetInv
<1>14. EmissionInv(c)'
  BY <1>1, <1>5, <1>6 DEF EmissionInv, CallInv, Undecided
<1>15. CallInv(c)'
  BY <1>11, <1>12, <1>13, <1>14 DEF CallInv
<1> QED
  BY <1>1, <1>4, <1>5, <1>7, <1>8, <1>15, OneCallSteps DEF BackendInv, TypeOK

\* A call that has its result moves on without touching what it knows.
LEMMA EpilogueParts ==
  ASSUME BackendInv, NEW c \in Call, NEW rec,
         call[c].pc \in {"metrics", "audit", "shaping"},
         rec.pc \in {"audit", "shaping", "returned"},
         rec.name = call[c].name, rec.args = call[c].args,
         rec.profile = call[c].profile, rec.attempt = call[c].attempt,
         rec.result = call[c].result, rec.label = call[c].label,
         call'[c] = rec, UNCHANGED <<net, executed>>
  PROVE  ProgressInv(c)' /\ AttemptInv(c)' /\ NetInv(c)' /\ LabelInv(c)'
<1>1. CallInv(c)
  BY DEF BackendInv
<1>2. ProgressInv(c)'
  BY <1>1 DEF ProgressInv, CallInv, Undecided
<1>3. Lawful(c)' <=> Lawful(c)
  BY DEF Lawful
<1>4. AttemptInv(c)'
  BY <1>1, <1>3 DEF AttemptInv, CallInv
<1>5. NetInv(c)' /\ LabelInv(c)'
  BY <1>1 DEF NetInv, LabelInv, CallInv
<1> QED
  BY <1>2, <1>4, <1>5

\* The label a call ends with is one of the labels.
LEMMA DecidedLabel ==
  ASSUME BackendInv, NEW c \in Call,
         call[c].pc \in {"metrics", "audit", "shaping", "returned"}
  PROVE  call[c].label \in Labels
<1>1. call[c].result \in Results
  BY CallFields DEF CallRecords, BackendInv, CallInv, ProgressInv, Undecided
<1> QED
  BY <1>1 DEF BackendInv, CallInv, LabelInv, Results, Labels

\* The call is counted.
LEMMA EmitMetricsKeeps ==
  ASSUME BackendInv, NEW c \in Call, EmitMetrics(c)
  PROVE  BackendInv'
<1> DEFINE label == call[c].label
           pc == IF AuditActionFor(label) = <<>> THEN "shaping" ELSE "audit"
           rec == [call[c] EXCEPT !.pc = pc]
<1>1. /\ call[c] \in CallRecords /\ CallInv(c) /\ call[c].pc = "metrics"
      /\ call' = [call EXCEPT ![c] = rec]
      /\ metrics' = [metrics EXCEPT ![c] = Append(@, label)]
      /\ UNCHANGED <<profiles, writer, reg, net, executed, audits>>
  BY CallFields DEF BackendInv, EmitMetrics, callUnchanged
<1>2. metrics[c] = <<>> /\ audits[c] = <<>> /\ call[c].response = "none"
  BY <1>1 DEF CallInv, EmissionInv
<1>3. label \in Labels
  BY <1>1, DecidedLabel
<1>4. /\ pc \in CallPCs /\ pc \in {"audit", "shaping"}
      /\ pc = "shaping" => AuditActionFor(label) = <<>>
  BY DEF CallPCs
<1> HIDE DEF pc, label
<1>5. rec \in CallRecords
  BY <1>1, <1>4 DEF CallRecords
<1>6. /\ rec.pc = pc /\ rec.attempt = call[c].attempt
      /\ rec.name = call[c].name /\ rec.args = call[c].args
      /\ rec.profile = call[c].profile /\ rec.result = call[c].result
      /\ rec.label = call[c].label /\ rec.response = call[c].response
  BY <1>1 DEF CallRecords
<1>7. call'[c] = rec
  BY <1>1 DEF BackendInv, TypeOK
<1> HIDE DEF rec
<1>8. metrics' \in [Call -> Seq(Labels)]
  BY <1>1, <1>3 DEF BackendInv, TypeOK
<1>9. metrics'[c] = <<label>> /\ \A d \in Call \ {c} : metrics'[d] = metrics[d]
  BY <1>1, <1>2, <1>3 DEF BackendInv, TypeOK
<1>10. ProgressInv(c)' /\ AttemptInv(c)' /\ NetInv(c)' /\ LabelInv(c)'
  BY <1>1, <1>4, <1>6, <1>7, EpilogueParts
<1>11. EmissionInv(c)'
  BY <1>1, <1>2, <1>4, <1>6, <1>7, <1>9 DEF EmissionInv, Undecided, label
<1>12. CallInv(c)'
  BY <1>10, <1>11 DEF CallInv
<1> QED
  BY <1>1, <1>5, <1>6, <1>8, <1>9, <1>12, OneCallSteps DEF BackendInv, TypeOK

\* The call is audited.
LEMMA EmitAuditKeeps ==
  ASSUME BackendInv, NEW c \in Call, EmitAudit(c)
  PROVE  BackendInv'
<1> DEFINE action == AuditActionFor(call[c].label)
           rec == [call[c] EXCEPT !.pc = "shaping"]
<1>1. /\ call[c] \in CallRecords /\ CallInv(c) /\ call[c].pc = "audit"
      /\ call' = [call EXCEPT ![c] = rec]
      /\ audits' = [audits EXCEPT ![c] = @ \o action]
      /\ UNCHANGED <<profiles, writer, reg, net, executed, metrics>>
  BY CallFields DEF BackendInv, EmitAudit, callUnchanged
<1>2. /\ metrics[c] = <<call[c].label>> /\ audits[c] = <<>>
      /\ call[c].response = "none"
  BY <1>1 DEF CallInv, EmissionInv
<1>3. action \in Seq(AuditActions)
  BY AuditType
<1> HIDE DEF action
<1>4. audits[c] \o action = action
  BY <1>2, <1>3
<1>5. "shaping" \in CallPCs
  BY DEF CallPCs
<1>6. rec \in CallRecords
  BY <1>1, <1>5 DEF CallRecords
<1>7. /\ rec.pc = "shaping" /\ rec.attempt = call[c].attempt
      /\ rec.name = call[c].name /\ rec.args = call[c].args
      /\ rec.profile = call[c].profile /\ rec.result = call[c].result
      /\ rec.label = call[c].label /\ rec.response = call[c].response
  BY <1>1 DEF CallRecords
<1>8. call'[c] = rec
  BY <1>1 DEF BackendInv, TypeOK
<1> HIDE DEF rec
<1>9. audits' = [audits EXCEPT ![c] = action]
  BY <1>1, <1>4
<1>10. audits' \in [Call -> Seq(AuditActions)]
  BY <1>3, <1>9 DEF BackendInv, TypeOK
<1>11. audits'[c] = action /\ \A d \in Call \ {c} : audits'[d] = audits[d]
  BY <1>9 DEF BackendInv, TypeOK
<1>12. ProgressInv(c)' /\ AttemptInv(c)' /\ NetInv(c)' /\ LabelInv(c)'
  BY <1>1, <1>7, <1>8, EpilogueParts
<1>13. EmissionInv(c)'
  BY <1>1, <1>2, <1>7, <1>8, <1>11 DEF EmissionInv, Undecided, action
<1>14. CallInv(c)'
  BY <1>12, <1>13 DEF CallInv
<1> QED
  BY <1>1, <1>6, <1>7, <1>10, <1>11, <1>14, OneCallSteps DEF BackendInv, TypeOK

\* The call is answered.
LEMMA ReturnResponseKeeps ==
  ASSUME BackendInv, NEW c \in Call, ReturnResponse(c)
  PROVE  BackendInv'
<1> DEFINE response == ResponseFor(call[c].profile, call[c].args, call[c].result)
           rec == [call[c] EXCEPT !.pc = "returned", !.response = response]
<1>1. /\ call[c] \in CallRecords /\ CallInv(c) /\ call[c].pc = "shaping"
      /\ call' = [call EXCEPT ![c] = rec]
      /\ UNCHANGED <<profiles, writer, reg, net, executed, metrics, audits>>
  BY CallFields DEF BackendInv, ReturnResponse, callUnchanged
<1>2. response \in Responses /\ "returned" \in CallPCs
  BY ResponseType DEF CallPCs
<1> HIDE DEF response
<1>3. rec \in CallRecords
  BY <1>1, <1>2 DEF CallRecords
<1>4. /\ rec.pc = "returned" /\ rec.attempt = call[c].attempt
      /\ rec.name = call[c].name /\ rec.args = call[c].args
      /\ rec.profile = call[c].profile /\ rec.result = call[c].result
      /\ rec.label = call[c].label /\ rec.response = response
  BY <1>1 DEF CallRecords
<1>5. call'[c] = rec
  BY <1>1 DEF BackendInv, TypeOK
<1> HIDE DEF rec
<1>6. ProgressInv(c)' /\ AttemptInv(c)' /\ NetInv(c)' /\ LabelInv(c)'
  BY <1>1, <1>4, <1>5, EpilogueParts
<1>7. EmissionInv(c)'
  BY <1>1, <1>4, <1>5 DEF EmissionInv, CallInv, Undecided, response
<1>8. CallInv(c)'
  BY <1>6, <1>7 DEF CallInv
<1> QED
  BY <1>1, <1>3, <1>4, <1>8, OneCallSteps DEF BackendInv, TypeOK

\* An attempt is carried out, refused or lost.
LEMMA DynamoKeeps ==
  ASSUME BackendInv, NEW c \in Call, NEW k \in Attempts, Dynamo(c, k)
  PROVE  BackendInv'
<1>1. PICK st \in {"acked", "refused", "lost"} :
          /\ net' = [net EXCEPT ![c][k] = st]
          /\ st = "acked" => executed' = [executed EXCEPT ![c] = @ \cup {k}]
          /\ st # "acked" => executed' = executed
  BY DEF Dynamo, DynamoExecutes, DynamoRefuses, LoseAttempt
<1>2. /\ call[c] \in CallRecords /\ CallInv(c)
      /\ UNCHANGED <<call, profiles, writer, reg, metrics, audits>>
      /\ net[c][k] # "unsent"
  BY CallFields DEF BackendInv, Dynamo, DynamoExecutes, DynamoRefuses,
     LoseAttempt, callUnchanged
<1>3. st \in AttemptStates
  BY <1>1 DEF AttemptStates
<1>4. net' \in [Call -> [Attempts -> AttemptStates]]
  BY <1>1, <1>3 DEF BackendInv, TypeOK
<1>5. executed' \in [Call -> SUBSET Attempts]
  <2>1. executed \in [Call -> SUBSET Attempts]
    BY DEF BackendInv, TypeOK
  <2>2. [executed EXCEPT ![c] = @ \cup {k}] \in [Call -> SUBSET Attempts]
    BY <2>1
  <2> QED
    BY <1>1, <2>1, <2>2
<1>6. /\ net'[c][k] = st
      /\ \A m \in Attempts : m # k => net'[c][m] = net[c][m]
      /\ \A d \in Call \ {c} : net'[d] = net[d] /\ executed'[d] = executed[d]
  BY <1>1 DEF BackendInv, TypeOK
<1>7. /\ executed[c] \subseteq executed'[c]
      /\ executed'[c] \subseteq executed[c] \cup {k}
      /\ st = "acked" => k \in executed'[c]
  BY <1>1, <1>2 DEF BackendInv, TypeOK
<1>8. ProgressInv(c)' /\ AttemptInv(c)' /\ LabelInv(c)' /\ EmissionInv(c)'
  BY <1>2 DEF CallInv, ProgressInv, AttemptInv, LabelInv, EmissionInv, Lawful
<1>9. NetInv(c)'
  <2>1. NetInv(c) /\ executed[c] \subseteq Attempts
    BY <1>2 DEF CallInv, BackendInv, TypeOK
  <2>2. \A m \in Attempts : m > call'[c].attempt => net'[c][m] = "unsent"
    BY <2>1, <1>2, <1>6 DEF NetInv
  <2>3. \A m \in Attempts : net'[c][m] = "acked" => m \in executed'[c]
    BY <2>1, <1>6, <1>7 DEF NetInv
  <2>4. \A m \in executed'[c] : net'[c][m] \notin {"unsent", "flying"}
    BY <2>1, <1>1, <1>6, <1>7 DEF NetInv
  <2>5. call'[c].result = "ok" => call'[c].attempt \in executed'[c]
    BY <2>1, <1>2, <1>7 DEF NetInv
  <2> QED
    BY <2>2, <2>3, <2>4, <2>5 DEF NetInv
<1>10. CallInv(c)'
  BY <1>8, <1>9 DEF CallInv
<1>11. call' = [call EXCEPT ![c] = call[c]]
  BY <1>2 DEF BackendInv, TypeOK
<1>12. metrics' \in [Call -> Seq(Labels)] /\ audits' \in [Call -> Seq(AuditActions)]
  BY <1>2 DEF BackendInv, TypeOK
<1> QED
  BY <1>2, <1>4, <1>5, <1>6, <1>10, <1>11, <1>12, OneCallSteps

-----------------------------------------------------------------------------
(* The invariant and what follows from it                                  *)

\* Every step keeps the invariant.
LEMMA InvNext == BackendInv /\ [Next]_vars => BackendInv'
<1> SUFFICES ASSUME BackendInv, [Next]_vars
             PROVE  BackendInv'
  OBVIOUS
<1>1. ASSUME NEW r \in Reg, Register(r)
      PROVE  BackendInv'
  BY <1>1, RegisterKeeps
<1>2. ASSUME NEW c \in Call, Execute(c)
      PROVE  BackendInv'
  BY <1>2, BeginExecuteKeeps, LookupProfileKeeps, RejectKeeps, SendRequestKeeps,
     SdkRetryKeeps, AwaitedKeeps, EmitMetricsKeeps, EmitAuditKeeps,
     ReturnResponseKeeps DEF Execute
<1>3. ASSUME NEW c \in Call, NEW k \in Attempts, Dynamo(c, k)
      PROVE  BackendInv'
  BY <1>3, DynamoKeeps
<1>4. CASE UNCHANGED vars
  <2>1. TypeOK' /\ RegistrationsInv' /\ ServedBindingWasRegistered'
    BY <1>4 DEF vars, BackendInv, TypeOK, RegistrationsInv, ServedBindingWasRegistered
  <2>2. \A c \in Call : CallInv(c)'
    BY <1>4, CallInvLocal DEF vars, BackendInv
  <2> QED
    BY <2>1, <2>2 DEF BackendInv
<1> QED
  BY <1>1, <1>2, <1>3, <1>4 DEF Next, Quiescent

\* Each registration and each call stays in step with itself: the inductive
\* invariant of the backend.
THEOREM BackendInvariant == Spec => []BackendInv
BY InvInit, InvNext, PTL DEF Spec

\* The variables keep their types.
THEOREM TypeCorrect == Spec => []TypeOK
<1>1. BackendInv => TypeOK
  BY DEF BackendInv
<1> QED
  BY <1>1, BackendInvariant, PTL

\* What the registry serves and calls work with was registered and accepted.
THEOREM ServedBindings == Spec => []ServedBindingWasRegistered
<1>1. BackendInv => ServedBindingWasRegistered
  BY DEF BackendInv
<1> QED
  BY <1>1, BackendInvariant, PTL

\* A rejected call never had a request on the wire.
THEOREM RejectedCalls == Spec => []RejectedNeverSent
<1>1. BackendInv => RejectedNeverSent
  <2> SUFFICES ASSUME BackendInv, NEW c \in Call,
                      call[c].label \in {"tool_error", "invalid_spec", "profile_not_found"}
               PROVE  (\A k \in Attempts : net[c][k] = "unsent") /\ executed[c] = {}
    BY DEF RejectedNeverSent
  <2>1. CallInv(c) /\ call[c] \in CallRecords /\ executed[c] \subseteq Attempts
    BY DEF BackendInv, TypeOK
  <2>2. call[c].result \in {"tool", "not_found"}
    BY <2>1 DEF CallInv, ProgressInv, LabelInv, CallRecords, Results
  <2>3. call[c].attempt = 0
    BY <2>1, <2>2 DEF CallInv, AttemptInv
  <2>4. \A k \in Attempts : k > 0
    BY DEF Attempts
  <2> QED
    BY <2>1, <2>3, <2>4 DEF CallInv, NetInv
<1> QED
  BY <1>1, BackendInvariant, PTL

\* A successful answer is backed by an execution of a lawful request.
THEOREM Acknowledged == Spec => []AcknowledgedWasExecuted
<1>1. BackendInv => AcknowledgedWasExecuted
  <2> SUFFICES ASSUME BackendInv, NEW c \in Call,
                      call[c].response \in {"body", "contents", "messages"}
               PROVE  executed[c] # {} /\ Lawful(c)
    BY DEF AcknowledgedWasExecuted, Lawful
  <2>1. CallInv(c)
    BY DEF BackendInv
  <2>2. call[c].pc = "returned"
    BY <2>1 DEF CallInv, EmissionInv
  <2>3. call[c].result = "ok"
    BY <2>1, <2>2 DEF CallInv, EmissionInv, ResponseFor
  <2> QED
    BY <2>1, <2>3 DEF CallInv, AttemptInv, NetInv
<1> QED
  BY <1>1, BackendInvariant, PTL

\* Every answered call was counted once, under what its caller was told, and
\* audited exactly when that is a failure, but for a resource without a uri.
THEOREM Observed == Spec => []ObservedOnce
<1>1. BackendInv => ObservedOnce
  <2> SUFFICES ASSUME BackendInv, NEW c \in Call, Returned(c)
               PROVE  LET told == call[c].response
                          label == metrics[c][1]
                          done == \/ told \in {"body", "contents", "messages"}
                                  \/ DoneWithoutUri(c)
                      IN  /\ Len(metrics[c]) = 1
                          /\ label = "ok" <=> done
                          /\ label = "profile_not_found" <=> told = "not_found"
                          /\ label = "timeout" <=> told = "timeout"
                          /\ label = "transport_error" <=> told = "transport"
                          /\ label \in {"tool_error", "invalid_spec"}
                                <=> told = "tool_error" /\ ~done
                          /\ Len(audits[c]) =
                                IF done \/ told = "not_found" THEN 0 ELSE 1
                          /\ audits[c] = <<"request_timeout">> <=> told = "timeout"
                          /\ audits[c] = <<"request_rejected">>
                                <=> label = "tool_error"
                          /\ audits[c] = <<"request_failed">>
                                <=> told = "transport" \/ label = "invalid_spec"
    BY DEF ObservedOnce
  <2> DEFINE Bodies == {"body", "contents", "messages"}
  <2>1. CallInv(c) /\ call[c] \in CallRecords
    BY DEF BackendInv, TypeOK
  <2>2. /\ metrics[c] = <<call[c].label>>
        /\ audits[c] = AuditActionFor(call[c].label)
        /\ call[c].response = ResponseFor(call[c].profile, call[c].args, call[c].result)
    BY <2>1 DEF CallInv, EmissionInv, Returned
  <2>3. Len(metrics[c]) = 1 /\ metrics[c][1] = call[c].label
    BY <2>2
  <2>4. call[c].result \in Results
    BY <2>1 DEF Returned, CallInv, ProgressInv, Undecided, CallRecords
  <2>5. CASE call[c].result = "ok"
    <3>1. call[c].label = "ok" /\ audits[c] = <<>>
      BY <2>1, <2>2, <2>5 DEF CallInv, LabelInv, AuditActionFor
    <3>2. executed[c] # {} /\ call[c].profile # None
      BY <2>1, <2>5 DEF CallInv, NetInv, AttemptInv, Lawful
    <3>3. call[c].profile.surface \in Surfaces
      BY <2>1, <3>2, BindingAssumption DEF CallRecords, Bindings
    <3>4. call[c].response = SurfaceBody(call[c].profile, call[c].args)
      BY <2>2, <2>5 DEF ResponseFor
    <3>5. call[c].response \in Bodies \/ DoneWithoutUri(c)
      BY <3>2, <3>3, <3>4 DEF SurfaceBody, DoneWithoutUri, Surfaces
    <3>6. call[c].response \in Bodies \cup {"tool_error"}
      BY <3>4 DEF SurfaceBody
    <3> QED
      BY <2>3, <3>1, <3>5, <3>6
  <2>6. CASE call[c].result = "tool"
    <3>1. call[c].label \in {"tool_error", "invalid_spec"}
      BY <2>1, <2>6 DEF CallInv, LabelInv
    <3>2. call[c].response = "tool_error"
      BY <2>2, <2>6 DEF ResponseFor
    <3>3. call[c].attempt = 0 /\ executed[c] \subseteq Attempts
      BY <2>1, <2>6 DEF CallInv, AttemptInv, BackendInv, TypeOK
    <3>4. executed[c] = {}
      BY <2>1, <3>3, AttemptsAssumption DEF CallInv, NetInv, Attempts
    <3>5. ~DoneWithoutUri(c)
      BY <3>4 DEF DoneWithoutUri
    <3>6. audits[c] = IF call[c].label = "tool_error"
                      THEN <<"request_rejected">> ELSE <<"request_failed">>
      BY <2>2, <3>1 DEF AuditActionFor
    <3> QED
      BY <2>3, <3>1, <3>2, <3>5, <3>6
  <2>7. CASE call[c].result = "timeout"
    <3>1. /\ call[c].label = "timeout" /\ call[c].response = "timeout"
          /\ audits[c] = <<"request_timeout">>
      BY <2>1, <2>2, <2>7 DEF CallInv, LabelInv, ResponseFor, AuditActionFor
    <3> QED
      BY <2>3, <3>1 DEF DoneWithoutUri
  <2>8. CASE call[c].result = "transport"
    <3>1. /\ call[c].label = "transport_error" /\ call[c].response = "transport"
          /\ audits[c] = <<"request_failed">>
      BY <2>1, <2>2, <2>8 DEF CallInv, LabelInv, ResponseFor, AuditActionFor
    <3> QED
      BY <2>3, <3>1 DEF DoneWithoutUri
  <2>9. CASE call[c].result = "not_found"
    <3>1. /\ call[c].label = "profile_not_found" /\ call[c].response = "not_found"
          /\ audits[c] = <<>>
      BY <2>1, <2>2, <2>9 DEF CallInv, LabelInv, ResponseFor, AuditActionFor
    <3> QED
      BY <2>3, <3>1 DEF DoneWithoutUri
  <2> QED
    BY <2>4, <2>5, <2>6, <2>7, <2>8, <2>9 DEF Results
<1> QED
  BY <1>1, BackendInvariant, PTL

-----------------------------------------------------------------------------
(* What a step may never do                                                *)

\* Only an attempt that DynamoDB carries out adds to what was executed.
LEMMA OnlyDynamoExecutes ==
  ASSUME BackendInv, [Next]_vars, NEW c \in Call, executed'[c] # executed[c]
  PROVE  /\ call'[c] = call[c]
         /\ \E k \in Attempts : net[c][k] = "flying" /\ k \notin executed[c]
                /\ executed' = [executed EXCEPT ![c] = @ \cup {k}]
                /\ UNCHANGED <<profiles, writer, reg, call>>
<1>1. ASSUME NEW r \in Reg, Register(r)
      PROVE  executed' = executed
  BY <1>1 DEF Register, BeginRegister, FinishBuild, TakeWriteLock, InsertProfile,
              regUnchanged
<1>2. ASSUME NEW d \in Call, Execute(d)
      PROVE  executed' = executed
  BY <1>2 DEF Execute, BeginExecute, LookupProfile, RejectPayload, RejectParams,
     RejectRequest, SendRequest, SdkRetry, SdkFails, SdkSucceeds, TimeOut,
     EmitMetrics, EmitAudit, ReturnResponse
<1>3. PICK d \in Call, k \in Attempts : DynamoExecutes(d, k)
  BY <1>1, <1>2 DEF Next, Quiescent, vars, Dynamo, DynamoRefuses, LoseAttempt
<1>4. /\ net[d][k] = "flying" /\ UNCHANGED <<profiles, writer, reg, call>>
      /\ executed' = [executed EXCEPT ![d] = @ \cup {k}]
  BY <1>3 DEF DynamoExecutes, callUnchanged
<1>5. d = c
  BY <1>4 DEF BackendInv, TypeOK
<1>6. k \notin executed[c]
  BY <1>4, <1>5 DEF BackendInv, CallInv, NetInv
<1> QED
  BY <1>4, <1>5, <1>6

\* An execution after the answer is explained by the answer or by a retry: the
\* attempt that a successful call awaited is no longer under way.
THEOREM Stragglers == Spec => StragglerExplained
<1>1. ASSUME BackendInv, [Next]_vars
      PROVE  [\A c \in Call : Returned(c) /\ executed'[c] # executed[c]
                => \/ call[c].response \in {"timeout", "transport"}
                   \/ call[c].attempt > 1]_vars
  <2> SUFFICES ASSUME NEW c \in Call, Returned(c), executed'[c] # executed[c]
               PROVE  \/ call[c].response \in {"timeout", "transport"}
                      \/ call[c].attempt > 1
    OBVIOUS
  <2>1. PICK k \in Attempts : net[c][k] = "flying" /\ k \notin executed[c]
    BY <1>1, OnlyDynamoExecutes
  <2>2. CallInv(c) /\ call[c] \in CallRecords
    BY <1>1 DEF BackendInv, TypeOK
  <2>3. k \in 1 .. MaxAttempts /\ call[c].attempt \in 0 .. MaxAttempts /\ k <= call[c].attempt
    BY <2>1, <2>2, AttemptsAssumption DEF CallInv, NetInv, Attempts, CallRecords
  <2>4. call[c].result \in {"ok", "timeout", "transport"}
    BY <2>2, <2>3, AttemptsAssumption
       DEF Returned, CallInv, AttemptInv, ProgressInv, Undecided, CallRecords, Results
  <2>5. CASE call[c].result = "ok"
    <3>1. k # call[c].attempt
      BY <2>1, <2>2, <2>5 DEF CallInv, NetInv
    <3> QED
      BY <2>3, <3>1, AttemptsAssumption
  <2>6. CASE call[c].result \in {"timeout", "transport"}
    BY <2>2, <2>6 DEF Returned, CallInv, EmissionInv, ResponseFor
  <2> QED
    BY <2>4, <2>5, <2>6
<1> QED
  BY <1>1, BackendInvariant, PTL DEF Spec, StragglerExplained

\* A registered name is never missed.
THEOREM NamesAreFound == Spec => NeverMissesARegisteredName
<1>1. ASSUME BackendInv, [Next]_vars
      PROVE  [\A c \in Call : \A r \in Reg :
                 call'[c].result = "not_found" /\ call[c].result # "not_found"
                   => ~(reg[r].pc = "registered" /\ reg[r].name = call[c].name)]_vars
  <2> SUFFICES ASSUME NEW c \in Call, NEW r \in Reg,
                      call'[c].result = "not_found", call[c].result # "not_found",
                      reg[r].pc = "registered", reg[r].name = call[c].name
               PROVE  FALSE
    OBVIOUS
  <2>1. profiles[call[c].name] # None
    BY <1>1 DEF BackendInv, RegistrationsInv
  <2>2. call \in [Call -> CallRecords]
    BY <1>1 DEF BackendInv, TypeOK
  <2>3. PICK d \in Call : Execute(d)
    BY <1>1 DEF Next, Quiescent, vars, Register, BeginRegister, FinishBuild,
       TakeWriteLock, InsertProfile, regUnchanged, Dynamo, DynamoExecutes,
       DynamoRefuses, LoseAttempt
  <2>4. ASSUME NEW e \in Call, NEW result, NEW label, Observe(e, result, label),
               result # "not_found"
        PROVE  FALSE
    BY <2>2, <2>4 DEF Observe, CallRecords
  <2>5. CASE LookupProfile(d)
    <3>1. d # c
      BY <2>1, <2>2, <2>5 DEF LookupProfile, CallRecords
    <3> QED
      BY <2>2, <2>5, <3>1 DEF LookupProfile, Observe
  <2>6. CASE RejectPayload(d) \/ RejectParams(d) \/ RejectRequest(d)
    BY <2>4, <2>6 DEF RejectPayload, RejectParams, RejectRequest
  <2>7. CASE SdkFails(d) \/ SdkSucceeds(d) \/ TimeOut(d)
    BY <2>4, <2>7 DEF SdkFails, SdkSucceeds, TimeOut
  <2>8. CASE SendRequest(d) \/ SdkRetry(d)
    BY <2>2, <2>8 DEF SendRequest, SdkRetry, CallRecords
  <2>9. CASE EmitMetrics(d) \/ EmitAudit(d) \/ ReturnResponse(d)
    <3>1. PICK pc, response :
             call' = [call EXCEPT ![d].pc = pc, ![d].response = response]
      <4>1. CASE EmitMetrics(d)
        <5>1. PICK pc : call' = [call EXCEPT ![d].pc = pc]
          BY <4>1 DEF EmitMetrics
        <5> QED
          BY <2>2, <5>1 DEF CallRecords
      <4>2. CASE EmitAudit(d)
        BY <2>2, <4>2 DEF EmitAudit, CallRecords
      <4>3. CASE ReturnResponse(d)
        BY <4>3 DEF ReturnResponse
      <4> QED
        BY <2>9, <4>1, <4>2, <4>3
    <3> QED
      BY <2>2, <3>1 DEF CallRecords
  <2>10. ASSUME NEW n \in Name, NEW a \in Args, BeginExecute(d, n, a)
         PROVE  FALSE
    BY <2>2, <2>10 DEF BeginExecute, CallRecords
  <2> QED
    BY <2>3, <2>5, <2>6, <2>7, <2>8, <2>9, <2>10 DEF Execute
<1> QED
  BY <1>1, BackendInvariant, PTL DEF Spec, NeverMissesARegisteredName

-----------------------------------------------------------------------------
(* The backend implements the service                                      *)

\* The service judges arguments as the handlers do.
LEMMA SameJudgement ==
  ASSUME NEW b, NEW a
  PROVE  /\ Service!ParamsBind(b, a) <=> ParamsBind(b, a)
         /\ Service!Admissible(b, a) <=> Admissible(b, a)
         /\ Service!ResourceUriKnown(b, a) <=> ResourceUriKnown(b, a)
<1>1. /\ Service!ParamsBind(b, a) <=> ParamsBind(b, a)
      /\ Service!ResourceUriKnown(b, a) <=> ResourceUriKnown(b, a)
  BY DEF Service!ParamsBind, ParamsBind, Service!ResourceUriKnown, ResourceUriKnown
<1>2. Service!Required = Required /\ Service!TypeChecked = TypeChecked
  BY DEF Service!Required, Required, Service!TypeChecked, TypeChecked,
         Service!ConditionArgs, ConditionArgs, Service!PageArgs, PageArgs
<1>3. Service!AddressesKeySchema(b, a) <=> AddressesKeySchema(b, a)
  BY DEF Service!AddressesKeySchema, AddressesKeySchema,
         Service!ValidateKey, ValidateKey, Service!CarriesKey, CarriesKey,
         Service!BatchKeysOk, BatchKeysOk, Service!WriteRequestsOk, WriteRequestsOk,
         Service!BatchSizeOk, BatchSizeOk, Service!ValidWrite, ValidWrite,
         Service!WriteKinds, WriteKinds
<1> QED
  BY <1>1, <1>2, <1>3 DEF Service!Admissible, Admissible

\* The initial states of the backend are initial states of the service.
LEMMA ServiceInit == Init => Service!Init
BY DEF Init, Service!Init, RegView, CallView, RegStage, CallStage

\* A step of one call, seen by the service, changes that call's view only.
LEMMA OneView ==
  ASSUME BackendInv, NEW c \in Call, NEW rec, call' = [call EXCEPT ![c] = rec]
  PROVE  [d \in Call |-> CallView(d)]' =
            [[d \in Call |-> CallView(d)] EXCEPT ![c] = CallView(c)']
BY DEF BackendInv, TypeOK, CallView

\* A step of a registration is one of the service, or none.
LEMMA RegisterRefines ==
  ASSUME BackendInv, NEW r \in Reg, Register(r)
  PROVE  [Service!Next]_Service!vars
<1>1. /\ UNCHANGED <<call, executed>>
      /\ reg \in [Reg -> RegRecords]
      /\ (reg[r].pc # "idle" => reg[r].name \in Name /\ reg[r].binding \in Binding)
  BY DEF BackendInv, TypeOK, RegistrationsInv, RegRecords, Register, BeginRegister,
         FinishBuild, TakeWriteLock, InsertProfile, regUnchanged
<1>2. [c \in Call |-> CallView(c)]' = [c \in Call |-> CallView(c)]
  BY <1>1 DEF CallView
<1>3. ASSUME NEW n \in Name, NEW b \in Binding, BeginRegister(r, n, b)
      PROVE  Service!Register(r, n, b)
  BY <1>1, <1>2, <1>3 DEF BeginRegister, Service!Register, RegView, RegStage, RegRecords
<1>4. CASE FinishBuild(r) \/ TakeWriteLock(r)
  <2>1. [q \in Reg |-> RegView(q)]' = [q \in Reg |-> RegView(q)]
    BY <1>1, <1>4 DEF FinishBuild, TakeWriteLock, RegView, RegStage, RegRecords
  <2> QED
    BY <1>1, <1>2, <1>4, <2>1 DEF FinishBuild, TakeWriteLock, Service!vars
<1>5. CASE InsertProfile(r)
  <2>1. Service!TakeEffect(r)
    BY <1>1, <1>2, <1>5 DEF InsertProfile, Service!TakeEffect, RegView, RegStage, RegRecords
  <2> QED
    BY <2>1 DEF Service!Next
<1> QED
  BY <1>3, <1>4, <1>5 DEF Register, Service!Next

\* A step that keeps the view of every call and the executions is none.
LEMMA ViewStutters ==
  ASSUME BackendInv, NEW c \in Call, NEW rec, call' = [call EXCEPT ![c] = rec],
         UNCHANGED <<profiles, reg, executed>>,
         CallStage(rec.pc) = CallStage(call[c].pc),
         rec.name = call[c].name, rec.args = call[c].args,
         rec.profile = call[c].profile, rec.response = call[c].response
  PROVE  UNCHANGED Service!vars
<1>1. call'[c] = rec
  BY DEF BackendInv, TypeOK
<1>2. CallView(c)' = CallView(c)
  BY <1>1 DEF CallView
<1>3. [d \in Call |-> CallView(d)]' = [d \in Call |-> CallView(d)]
  BY <1>2, OneView
<1>4. [q \in Reg |-> RegView(q)]' = [q \in Reg |-> RegView(q)]
  BY DEF RegView
<1> QED
  BY <1>3, <1>4 DEF Service!vars

\* A call that gets its result, other than not-found, looks the same.
LEMMA FinishStutters ==
  ASSUME BackendInv, NEW c \in Call, NEW result, NEW label,
         Observe(c, result, label), UNCHANGED <<profiles, reg, executed>>,
         call[c].pc \in {"parsing", "awaiting"}
  PROVE  UNCHANGED Service!vars
<1> DEFINE rec == [call[c] EXCEPT !.pc = "metrics", !.result = result,
                                  !.label = label]
<1>1. call[c] \in CallRecords
  BY CallFields
<1>2. call' = [call EXCEPT ![c] = rec]
  BY DEF Observe
<1>3. /\ rec.pc = "metrics" /\ rec.name = call[c].name
      /\ rec.args = call[c].args /\ rec.profile = call[c].profile
      /\ rec.response = call[c].response
  BY <1>1 DEF CallRecords
<1>4. CallStage(rec.pc) = CallStage(call[c].pc)
  BY <1>3 DEF CallStage
<1> HIDE DEF rec
<1> QED
  BY <1>2, <1>3, <1>4, ViewStutters

\* Making a call is invoking the service.
LEMMA BeginExecuteRefines ==
  ASSUME BackendInv, NEW c \in Call, NEW n \in Name, NEW a \in Args,
         BeginExecute(c, n, a)
  PROVE  Service!Invoke(c, n, a)
<1> DEFINE rec == [call[c] EXCEPT !.pc = "lookup", !.name = n, !.args = a]
<1>1. call[c] \in CallRecords /\ call[c].pc = "idle"
      /\ call' = [call EXCEPT ![c] = rec] /\ UNCHANGED <<profiles, reg, executed>>
  BY CallFields DEF BeginExecute, callUnchanged
<1>2. call'[c] = rec
  BY <1>1 DEF BackendInv, TypeOK
<1>6. /\ rec.pc = "lookup" /\ rec.name = n /\ rec.args = a
      /\ rec.profile = call[c].profile /\ rec.response = call[c].response
  BY <1>1 DEF CallRecords
<1> HIDE DEF rec
<1>3. CallView(c)' = [CallView(c) EXCEPT !.st = "pending", !.name = n, !.args = a]
  <2>1. CallStage(rec.pc) = "pending"
    BY <1>2, <1>6 DEF CallStage
  <2> DEFINE v == CallView(c)
  <2>2. CallView(c)' =
            [st |-> "pending", name |-> n, args |-> a,
             binding |-> v.binding, answer |-> v.answer]
    BY <1>2, <1>6, <2>1 DEF CallView
  <2>3. [v EXCEPT !.st = "pending"] =
            [st |-> "pending", name |-> v.name, args |-> v.args,
             binding |-> v.binding, answer |-> v.answer]
    BY DEF CallView
  <2>4. [[st |-> "pending", name |-> v.name, args |-> v.args,
             binding |-> v.binding, answer |-> v.answer] EXCEPT !.name = n] =
            [st |-> "pending", name |-> n, args |-> v.args,
             binding |-> v.binding, answer |-> v.answer]
    BY DEF CallView
  <2>5. [[st |-> "pending", name |-> n, args |-> v.args,
             binding |-> v.binding, answer |-> v.answer] EXCEPT !.args = a] =
            [st |-> "pending", name |-> n, args |-> a,
             binding |-> v.binding, answer |-> v.answer]
    BY DEF CallView
  <2> HIDE DEF v
  <2> QED
    BY <2>2, <2>3, <2>4, <2>5 DEF v
<1>4. [q \in Reg |-> RegView(q)]' = [q \in Reg |-> RegView(q)]
  BY <1>1 DEF RegView
<1>5. CallView(c).st = "idle"
  BY <1>1 DEF CallView, CallStage
<1> QED
  BY <1>1, <1>3, <1>4, <1>5, OneView DEF Service!Invoke

\* Reading the registry is resolving the name.
LEMMA LookupProfileRefines ==
  ASSUME BackendInv, NEW c \in Call, LookupProfile(c)
  PROVE  Service!Resolve(c)
<1> DEFINE b == profiles[call[c].name]
           rec == IF b = None
                  THEN [call[c] EXCEPT !.pc = "metrics", !.result = "not_found",
                                       !.label = "profile_not_found"]
                  ELSE [call[c] EXCEPT !.pc = "parsing", !.profile = b]
<1>1. /\ call[c] \in CallRecords /\ call[c].pc = "lookup" /\ call[c].profile = None
      /\ UNCHANGED <<profiles, reg, executed>>
  BY CallFields DEF LookupProfile, callUnchanged, BackendInv, CallInv, ProgressInv
<1>2. call' = [call EXCEPT ![c] = rec]
  BY DEF LookupProfile, Observe
<1>3. call'[c] = rec
  BY <1>2 DEF BackendInv, TypeOK
<1> HIDE DEF b
<1>7. /\ rec.pc \in {"metrics", "parsing"} /\ rec.profile = b
      /\ rec.name = call[c].name /\ rec.args = call[c].args
      /\ rec.response = call[c].response
  BY <1>1 DEF CallRecords
<1> HIDE DEF rec
<1>4. CallView(c)' = [CallView(c) EXCEPT !.st = "bound", !.binding = b]
  <2>1. CallStage(rec.pc) = "bound"
    BY <1>3, <1>7 DEF CallStage
  <2> DEFINE v == CallView(c)
  <2>2. CallView(c)' =
            [st |-> "bound", name |-> v.name, args |-> v.args,
             binding |-> b, answer |-> v.answer]
    BY <1>3, <1>7, <2>1 DEF CallView
  <2>3. [v EXCEPT !.st = "bound"] =
            [st |-> "bound", name |-> v.name, args |-> v.args,
             binding |-> v.binding, answer |-> v.answer]
    BY DEF CallView
  <2>4. [[st |-> "bound", name |-> v.name, args |-> v.args,
             binding |-> v.binding, answer |-> v.answer] EXCEPT !.binding = b] =
            [st |-> "bound", name |-> v.name, args |-> v.args,
             binding |-> b, answer |-> v.answer]
    BY DEF CallView
  <2> HIDE DEF v
  <2> QED
    BY <2>2, <2>3, <2>4 DEF v
<1>5. [q \in Reg |-> RegView(q)]' = [q \in Reg |-> RegView(q)]
  BY <1>1 DEF RegView
<1>6. CallView(c).st = "pending" /\ CallView(c).name = call[c].name
  BY <1>1 DEF CallView, CallStage
<1> QED
  BY <1>1, <1>2, <1>4, <1>5, <1>6, OneView DEF Service!Resolve, b

\* An answer of the backend is one the service may give.
LEMMA ReturnResponseRefines ==
  ASSUME BackendInv, NEW c \in Call, ReturnResponse(c)
  PROVE  Service!Answer(c)
<1> DEFINE response == ResponseFor(call[c].profile, call[c].args, call[c].result)
           rec == [call[c] EXCEPT !.pc = "returned", !.response = response]
<1>1. /\ call[c] \in CallRecords /\ CallInv(c) /\ call[c].pc = "shaping"
      /\ call' = [call EXCEPT ![c] = rec]
      /\ UNCHANGED <<profiles, reg, executed>>
  BY CallFields DEF BackendInv, ReturnResponse, callUnchanged
<1>2. call'[c] = rec
  BY <1>1 DEF BackendInv, TypeOK
<1>3. response \in Service!Answers
  BY ResponseType DEF Responses, Service!Answers
<1>4. call[c].result \in Results
  BY <1>1 DEF CallInv, ProgressInv, Undecided, CallRecords
<1>5. /\ CallView(c).st = "bound" /\ CallView(c).binding = call[c].profile
      /\ CallView(c).args = call[c].args
  BY <1>1 DEF CallView, CallStage
<1>6. Service!Permitted(c) <=> Lawful(c)
  BY <1>5, SameJudgement DEF Service!Permitted, Lawful
<1>7. Service!MayAnswer(c, response)
  <2>1. CASE call[c].result = "not_found"
    BY <1>1, <1>5, <2>1 DEF CallInv, ProgressInv, ResponseFor, Service!MayAnswer
  <2>2. CASE call[c].result = "tool"
    <3>1. call[c].profile # None /\ ~Lawful(c)
      BY <1>1, <2>2 DEF CallInv, ProgressInv, AttemptInv, Undecided
    <3> QED
      BY <1>5, <1>6, <2>2, <3>1 DEF ResponseFor, Service!MayAnswer
  <2>3. CASE call[c].result \in {"timeout", "transport"}
    <3>1. call[c].profile # None /\ Lawful(c)
      BY <1>1, <2>3 DEF CallInv, AttemptInv, Lawful
    <3> QED
      BY <1>5, <1>6, <2>3, <3>1 DEF ResponseFor, Service!MayAnswer
  <2>4. CASE call[c].result = "ok"
    <3>1. call[c].profile # None /\ Lawful(c) /\ executed[c] # {}
      BY <1>1, <2>4 DEF CallInv, AttemptInv, NetInv, Lawful
    <3>2. call[c].profile \in Bindings
      BY <1>1, <3>1, BindingAssumption DEF CallRecords
    <3>3. call[c].profile.surface \in {"tool", "resource", "prompt"}
      BY <3>2 DEF Bindings, Surfaces
    <3>4. response = IF Service!Homeless(c) THEN "tool_error"
                     ELSE Service!Body[call[c].profile.surface]
      BY <1>5, <2>4, <3>3, SameJudgement
         DEF ResponseFor, SurfaceBody, Service!Homeless, Service!Body
    <3> QED
      BY <1>5, <1>6, <3>1, <3>4 DEF Service!MayAnswer
  <2> QED
    BY <1>4, <2>1, <2>2, <2>3, <2>4 DEF Results
<1> HIDE DEF response
<1>8. /\ rec.pc = "returned" /\ rec.response = response
      /\ rec.name = call[c].name /\ rec.args = call[c].args
      /\ rec.profile = call[c].profile
  BY <1>1 DEF CallRecords
<1> HIDE DEF rec
<1>9. CallView(c)' = [CallView(c) EXCEPT !.st = "answered", !.answer = response]
  <2>1. CallStage(rec.pc) = "answered"
    BY <1>2, <1>8 DEF CallStage
  <2> DEFINE v == CallView(c)
  <2>2. CallView(c)' =
            [st |-> "answered", name |-> v.name, args |-> v.args,
             binding |-> v.binding, answer |-> response]
    BY <1>2, <1>8, <2>1 DEF CallView
  <2>3. [v EXCEPT !.st = "answered"] =
            [st |-> "answered", name |-> v.name, args |-> v.args,
             binding |-> v.binding, answer |-> v.answer]
    BY DEF CallView
  <2>4. [[st |-> "answered", name |-> v.name, args |-> v.args,
             binding |-> v.binding, answer |-> v.answer] EXCEPT !.answer = response] =
            [st |-> "answered", name |-> v.name, args |-> v.args,
             binding |-> v.binding, answer |-> response]
    BY DEF CallView
  <2> HIDE DEF v
  <2> QED
    BY <2>2, <2>3, <2>4 DEF v
<1>10. [q \in Reg |-> RegView(q)]' = [q \in Reg |-> RegView(q)]
  BY <1>1 DEF RegView
<1>11. [d \in Call |-> CallView(d)]' =
          [[d \in Call |-> CallView(d)] EXCEPT ![c].st = "answered",
                                               ![c].answer = response]
  BY <1>1, <1>9, OneView
<1>12. UNCHANGED <<profiles, executed>>
  BY <1>1
<1> QED
  BY <1>3, <1>5, <1>7, <1>10, <1>11, <1>12 DEF Service!Answer

\* Every step of a call is one of the service, or none.
LEMMA ExecuteRefines ==
  ASSUME BackendInv, NEW c \in Call, Execute(c)
  PROVE  [Service!Next]_Service!vars
<1>1. call[c] \in CallRecords
  BY CallFields
<1>2. ASSUME NEW n \in Name, NEW a \in Args, BeginExecute(c, n, a)
      PROVE  [Service!Next]_Service!vars
  BY <1>2, BeginExecuteRefines DEF Service!Next
<1>3. CASE LookupProfile(c)
  BY <1>3, LookupProfileRefines DEF Service!Next
<1>4. CASE ReturnResponse(c)
  BY <1>4, ReturnResponseRefines DEF Service!Next
<1>5. CASE RejectPayload(c) \/ RejectParams(c) \/ RejectRequest(c)
  BY <1>5, FinishStutters
     DEF RejectPayload, RejectParams, RejectRequest, callUnchanged
<1>6. CASE SdkFails(c) \/ SdkSucceeds(c) \/ TimeOut(c)
  BY <1>6, FinishStutters DEF SdkFails, SdkSucceeds, TimeOut, callUnchanged
<1>7. CASE SendRequest(c)
  <2> DEFINE rec == [call[c] EXCEPT !.pc = "awaiting", !.attempt = 1]
  <2>1. /\ call' = [call EXCEPT ![c] = rec] /\ call[c].pc = "parsing"
        /\ UNCHANGED <<profiles, reg, executed>>
    BY <1>7 DEF SendRequest, callUnchanged
  <2>2. /\ rec.pc = "awaiting" /\ rec.name = call[c].name /\ rec.args = call[c].args
        /\ rec.profile = call[c].profile /\ rec.response = call[c].response
    BY <1>1 DEF CallRecords
  <2> HIDE DEF rec
  <2>3. CallStage(rec.pc) = CallStage(call[c].pc)
    BY <2>1, <2>2 DEF CallStage
  <2> QED
    BY <2>1, <2>2, <2>3, ViewStutters
<1>8. CASE SdkRetry(c)
  <2> DEFINE rec == [call[c] EXCEPT !.attempt = call[c].attempt + 1]
  <2>1. /\ call' = [call EXCEPT ![c] = rec]
        /\ UNCHANGED <<profiles, reg, executed>>
    BY <1>8 DEF SdkRetry, callUnchanged
  <2>2. /\ rec.pc = call[c].pc /\ rec.name = call[c].name /\ rec.args = call[c].args
        /\ rec.profile = call[c].profile /\ rec.response = call[c].response
    BY <1>1 DEF CallRecords
  <2> HIDE DEF rec
  <2> QED
    BY <2>1, <2>2, ViewStutters
<1>9. CASE EmitMetrics(c) \/ EmitAudit(c)
  <2>1. PICK pc \in {"audit", "shaping"} : call' = [call EXCEPT ![c].pc = pc]
    BY <1>9 DEF EmitMetrics, EmitAudit
  <2> DEFINE rec == [call[c] EXCEPT !.pc = pc]
  <2>2. /\ call' = [call EXCEPT ![c] = rec] /\ call[c].pc \in {"metrics", "audit"}
        /\ UNCHANGED <<profiles, reg, executed>>
    BY <1>9, <2>1 DEF EmitMetrics, EmitAudit, callUnchanged
  <2>3. /\ rec.pc = pc /\ rec.name = call[c].name /\ rec.args = call[c].args
        /\ rec.profile = call[c].profile /\ rec.response = call[c].response
    BY <1>1 DEF CallRecords
  <2> HIDE DEF rec
  <2>4. CallStage(rec.pc) = CallStage(call[c].pc)
    BY <2>2, <2>3 DEF CallStage
  <2> QED
    BY <2>2, <2>3, <2>4, ViewStutters
<1> QED
  BY <1>2, <1>3, <1>4, <1>5, <1>6, <1>7, <1>8, <1>9 DEF Execute

\* DynamoDB carrying out an attempt is the service's effect.
LEMMA DynamoRefines ==
  ASSUME BackendInv, NEW c \in Call, NEW k \in Attempts, Dynamo(c, k)
  PROVE  [Service!Next]_Service!vars
<1>1. /\ UNCHANGED <<profiles, reg, call>>
      /\ CallInv(c) /\ call[c] \in CallRecords
      /\ executed \in [Call -> SUBSET Attempts]
  BY DEF Dynamo, DynamoExecutes, DynamoRefuses, LoseAttempt, callUnchanged,
         BackendInv, TypeOK
<1>2. /\ [q \in Reg |-> RegView(q)]' = [q \in Reg |-> RegView(q)]
      /\ [d \in Call |-> CallView(d)]' = [d \in Call |-> CallView(d)]
  BY <1>1 DEF RegView, CallView
<1>3. CASE DynamoExecutes(c, k)
  <2>1. /\ net[c][k] = "flying"
        /\ executed' = [executed EXCEPT ![c] = @ \cup {k}]
    BY <1>3 DEF DynamoExecutes
  <2>2. k \notin executed[c] /\ call[c].attempt # 0
    BY <1>1, <2>1, AttemptsAssumption DEF CallInv, NetInv, Attempts
  <2>3. Lawful(c) /\ call[c].pc \notin {"idle", "lookup"}
    BY <1>1, <2>2 DEF CallInv, AttemptInv, ProgressInv
  <2>4. /\ CallView(c).st \in {"bound", "answered"}
        /\ CallView(c).binding = call[c].profile /\ CallView(c).args = call[c].args
    BY <2>3 DEF CallView, CallStage
  <2>5. Service!Permitted(c)
    BY <2>3, <2>4, SameJudgement DEF Service!Permitted, Lawful
  <2>6. Service!CarryOut(c, k)
    BY <1>1, <1>2, <2>1, <2>2, <2>4, <2>5 DEF Service!CarryOut
  <2> QED
    BY <2>6 DEF Service!Next, Attempts
<1>4. CASE DynamoRefuses(c, k) \/ LoseAttempt(c, k)
  BY <1>1, <1>2, <1>4 DEF DynamoRefuses, LoseAttempt, Service!vars
<1> QED
  BY <1>3, <1>4 DEF Dynamo

\* The backend, with its lock, its early returns, its retried and dropped
\* requests, implements the service of atomic registrations and lookups.
THEOREM Refinement == Spec => ServiceSpec
<1>1. ASSUME BackendInv, [Next]_vars
      PROVE  [Service!Next]_Service!vars
  <2>1. CASE UNCHANGED vars
    <3>1. UNCHANGED <<profiles, reg, call, executed>>
      BY <2>1 DEF vars
    <3>2. /\ [q \in Reg |-> RegView(q)]' = [q \in Reg |-> RegView(q)]
          /\ [d \in Call |-> CallView(d)]' = [d \in Call |-> CallView(d)]
      BY <3>1 DEF RegView, CallView
    <3> QED
      BY <3>1, <3>2 DEF Service!vars
  <2> QED
    BY <1>1, <2>1, RegisterRefines, ExecuteRefines, DynamoRefines DEF Next, Quiescent
<1> QED
  BY <1>1, ServiceInit, BackendInvariant, PTL DEF Spec, ServiceSpec, Service!Spec
=============================================================================
