---------------------------- MODULE BatchProofs ----------------------------
(***************************************************************************)
(* Proofs about BatchDrain, for every batch, every size limit and every    *)
(* number of attempts that were given up.                                  *)
(***************************************************************************)
EXTENDS BatchDrain, FiniteSetTheorems, TLAPS

\* What carrying an entry out does to the table and to the counts.
LEMMA CarryOutFacts ==
    ASSUME DrainInv, NEW e \in Entry, CarryOut(e), UNCHANGED op
    PROVE  /\ applied' \in [Entry -> 0 .. 2]
           /\ applied'[e] >= 1
           /\ applied[e] = 0 => applied'[e] = 1
           /\ \A f \in Entry : f # e => applied'[f] = applied[f]
           /\ \A f \in Entry : applied'[f] >= applied[f]
           /\ table' \in [Key -> Entry \cup {Other, OtherDeleted}]
           /\ stable' \subseteq stable
           /\ op = "batch_get" => table' = table /\ stable' = stable
           /\ \A k \in stable' : Occupied(k)'
PROOF
<1>1. /\ applied \in [Entry -> 0 .. 2] /\ stable \subseteq Key
      /\ table \in [Key -> Entry \cup {Other, OtherDeleted}]
      /\ op \in {"batch_get", "batch_write"} /\ KeyOf[e] \in Key
  BY DEF DrainInv, TypeOK, Key
<1>2. applied' = [applied EXCEPT ![e] = IF applied[e] = 0 THEN 1 ELSE 2]
  BY DEF CarryOut
<1>3. /\ applied' \in [Entry -> 0 .. 2]
      /\ applied'[e] >= 1
      /\ applied[e] = 0 => applied'[e] = 1
      /\ \A f \in Entry : f # e => applied'[f] = applied[f]
      /\ \A f \in Entry : applied'[f] >= applied[f]
  BY <1>1, <1>2
<1>4. /\ table' \in [Key -> Entry \cup {Other, OtherDeleted}]
      /\ stable' \subseteq stable
      /\ op = "batch_get" => table' = table /\ stable' = stable
  BY <1>1 DEF CarryOut
<1>5. ASSUME NEW k \in stable' PROVE Occupied(k)'
  <2>1. Occupied(k) /\ k \in Key
    BY <1>1, <1>4, <1>5 DEF DrainInv, ItemsInv
  <2>2. CASE table'[k] = table[k]
    BY <2>1, <2>2 DEF Occupied
  <2>3. CASE table'[k] # table[k]
    <3>1. /\ op = "batch_write" /\ k = KeyOf[e] /\ table'[k] = e
          /\ e \notin Deletes
      BY <1>1, <1>5, <2>1, <2>3 DEF CarryOut
    <3> QED BY <3>1, EntryAssumption DEF Occupied
  <2> QED BY <2>2, <2>3
<1> QED BY <1>3, <1>4, <1>5

LEMMA DrainInvInit ==
    ASSUME Init PROVE DrainInv
PROOF
<1>1. TypeOK
  BY BatchMaxAssumption DEF Init, TypeOK, Key, Occupied
<1>2. CallInv /\ ItemsInv
  BY DEF Init, CallInv, ItemsInv
<1>3. NothingLost /\ OnceUnlessGivenUp /\ EachItemRead
  BY DEF Init, NothingLost, OnceUnlessGivenUp, EachItemRead
<1> QED BY <1>1, <1>2, <1>3 DEF DrainInv

LEMMA InterfereInv ==
    ASSUME DrainInv, NEW k \in Key, Interfere(k) PROVE DrainInv'
PROOF
<1>1. PICK who \in {Other, OtherDeleted} :
        /\ table' = [table EXCEPT ![k] = who]
        /\ stable' = IF who = OtherDeleted THEN stable \ {k} ELSE stable
  BY DEF Interfere
<1>2. UNCHANGED <<op, late, applied, pc, pending, sent, done, rows, givenUp, delivered>>
  BY DEF Interfere, callVars
<1>3. stable' \subseteq stable /\ TypeOK'
  BY <1>1, <1>2 DEF DrainInv, TypeOK
<1>4. \A j \in stable' : Occupied(j)'
  <2> SUFFICES ASSUME NEW j \in stable' PROVE Occupied(j)'
    OBVIOUS
  <2>1. Occupied(j) /\ j \in Key /\ DOMAIN table = Key
    BY <1>3 DEF DrainInv, ItemsInv, TypeOK
  <2>2. CASE j # k
    BY <1>1, <2>1, <2>2 DEF Occupied
  <2>3. CASE j = k
    <3>1. who = Other /\ table'[j] = Other
      BY <1>1, <2>1, <2>3
    <3> QED BY <3>1, EntryAssumption DEF Occupied
  <2> QED BY <2>2, <2>3
<1>5. CallInv' /\ NothingLost' /\ OnceUnlessGivenUp'
  BY <1>2 DEF DrainInv, CallInv, NothingLost, OnceUnlessGivenUp
<1>6. ItemsInv' /\ EachItemRead'
  BY <1>2, <1>3, <1>4 DEF DrainInv, ItemsInv, EachItemRead
<1> QED BY <1>3, <1>5, <1>6 DEF DrainInv

LEMMA ProcessInv ==
    ASSUME DrainInv, NEW e \in Entry, Process(e) PROVE DrainInv'
PROOF
<1>1. /\ applied' \in [Entry -> 0 .. 2]
      /\ applied'[e] >= 1
      /\ applied[e] = 0 => applied'[e] = 1
      /\ \A f \in Entry : f # e => applied'[f] = applied[f]
      /\ \A f \in Entry : applied'[f] >= applied[f]
      /\ table' \in [Key -> Entry \cup {Other, OtherDeleted}]
      /\ stable' \subseteq stable
      /\ op = "batch_get" => table' = table /\ stable' = stable
      /\ \A k \in stable' : Occupied(k)'
  BY CarryOutFacts DEF Process
<1>2. /\ e \in sent \ done /\ pc = "awaiting"
      /\ done' = done \cup {e}
      /\ rows' = IF op = "batch_get" /\ Occupied(KeyOf[e]) THEN rows \cup {e} ELSE rows
      /\ UNCHANGED <<op, pc, pending, sent, late, givenUp, delivered>>
  BY DEF Process
<1>3. /\ applied \in [Entry -> 0 .. 2]
      /\ sent \subseteq pending /\ pending \subseteq Entry /\ done \subseteq sent
  BY DEF DrainInv, TypeOK
<1>4. TypeOK'
  BY <1>1, <1>2 DEF DrainInv, TypeOK
<1>5. CallInv'
  BY <1>1, <1>2, <1>3 DEF DrainInv, CallInv
<1>6. ItemsInv'
  BY <1>1, <1>2 DEF DrainInv, ItemsInv
<1>7. NothingLost' /\ EachItemRead'
  BY <1>1, <1>2, <1>3 DEF DrainInv, NothingLost, EachItemRead
<1>8. OnceUnlessGivenUp'
  <2> SUFFICES ASSUME NEW f \in Entry, applied'[f] > 1 PROVE f \in givenUp
    BY <1>2 DEF OnceUnlessGivenUp
  <2>1. CASE f # e
    BY <1>1, <2>1 DEF DrainInv, OnceUnlessGivenUp
  <2>2. CASE f = e
    <3>1. applied[e] >= 1
      BY <1>1, <1>3, <2>2
    <3> QED BY <1>2, <1>3, <2>2, <3>1 DEF DrainInv, CallInv
  <2> QED BY <2>1, <2>2
<1> QED BY <1>4, <1>5, <1>6, <1>7, <1>8 DEF DrainInv

LEMMA ProcessLateInv ==
    ASSUME DrainInv, NEW e \in Entry, ProcessLate(e) PROVE DrainInv'
PROOF
<1>1. UNCHANGED <<op, pc, pending, sent, done, rows, givenUp, delivered>>
  BY DEF ProcessLate, callVars
<1>2. /\ late \in [Entry -> 0 .. MaxLate] /\ applied \in [Entry -> 0 .. 2]
      /\ stable \subseteq Key /\ done \subseteq sent /\ sent \subseteq pending
      /\ pending \subseteq Entry
  BY DEF DrainInv, TypeOK
<1>3. /\ late[e] > 0 /\ late' = [late EXCEPT ![e] = late[e] - 1]
      /\ e \in givenUp
  BY DEF ProcessLate, DrainInv, CallInv
<1>4. /\ late' \in [Entry -> 0 .. MaxLate]
      /\ \A f \in Entry : late'[f] > 0 => late[f] > 0
  BY <1>2, <1>3, BatchMaxAssumption
<1>5. /\ applied' \in [Entry -> 0 .. 2]
      /\ \A f \in Entry : f # e => applied'[f] = applied[f]
      /\ \A f \in Entry : applied'[f] >= applied[f]
      /\ table' \in [Key -> Entry \cup {Other, OtherDeleted}]
      /\ stable' \subseteq stable
      /\ op = "batch_get" => stable' = stable
      /\ \A k \in stable' : Occupied(k)'
  <2>1. CASE CarryOut(e)
    BY <1>1, <2>1, CarryOutFacts
  <2>2. CASE UNCHANGED <<applied, table, stable>>
    BY <1>2, <2>2 DEF DrainInv, ItemsInv, TypeOK, Occupied
  <2> QED BY <2>1, <2>2 DEF ProcessLate
<1>6. TypeOK'
  BY <1>1, <1>2, <1>4, <1>5 DEF DrainInv, TypeOK
<1>7. CallInv'
  BY <1>1, <1>2, <1>3, <1>4, <1>5 DEF DrainInv, CallInv
<1>8. ItemsInv'
  BY <1>1, <1>5 DEF DrainInv, ItemsInv
<1>9. NothingLost' /\ OnceUnlessGivenUp' /\ EachItemRead'
  <2>1. NothingLost'
    BY <1>1, <1>2, <1>5 DEF DrainInv, NothingLost
  <2>2. OnceUnlessGivenUp'
    BY <1>1, <1>3, <1>5 DEF DrainInv, OnceUnlessGivenUp
  <2>3. EachItemRead'
    BY <1>1, <1>5 DEF DrainInv, EachItemRead
  <2> QED BY <2>1, <2>2, <2>3
<1> QED BY <1>6, <1>7, <1>8, <1>9 DEF DrainInv

LEMMA SubmitInv ==
    ASSUME DrainInv, NEW batch \in SUBSET Entry, Submit(batch) PROVE DrainInv'
PROOF
<1>1. /\ pc = "idle" /\ batch \subseteq pending /\ pc' = "awaiting"
      /\ sent' = batch /\ done' = {} /\ rows' = {}
      /\ UNCHANGED <<op, table, pending, late, applied, givenUp, delivered, stable>>
  BY DEF Submit
<1>2. sent = {} /\ done = {}
  BY <1>1 DEF DrainInv, CallInv, TypeOK
<1>3. TypeOK' /\ CallInv'
  BY <1>1, <1>2 DEF DrainInv, TypeOK, CallInv
<1>4. ItemsInv' /\ NothingLost' /\ OnceUnlessGivenUp' /\ EachItemRead'
  BY <1>1 DEF DrainInv, ItemsInv, NothingLost, OnceUnlessGivenUp, EachItemRead, Occupied
<1> QED BY <1>3, <1>4 DEF DrainInv

LEMMA AnswerInv ==
    ASSUME DrainInv, Answer PROVE DrainInv'
PROOF
<1>1. /\ pc = "awaiting"
      /\ delivered' = [e \in Entry |->
                          IF op = "batch_get" /\ e \in rows THEN delivered[e] + 1
                          ELSE delivered[e]]
      /\ pending' = (pending \ sent) \cup (sent \ done)
      /\ pc' = IF pending' = {} THEN "drained" ELSE "idle"
      /\ sent' = {} /\ done' = {} /\ rows' = {}
      /\ UNCHANGED <<op, table, applied, stable, late, givenUp>>
  BY DEF Answer, EndCall, Unprocessed
<1>2. /\ delivered \in [Entry -> Nat] /\ pending \subseteq Entry
      /\ sent \subseteq pending /\ done \subseteq sent /\ rows \subseteq done
  BY DEF DrainInv, TypeOK
<1>3. pending' = pending \ done
  BY <1>1, <1>2
<1>4. /\ delivered' \in [Entry -> Nat]
      /\ \A e \in Entry : e \notin rows => delivered'[e] = delivered[e]
      /\ \A e \in rows : delivered[e] = 0
      /\ \A e \in rows : op = "batch_get" => delivered'[e] = 1
  <2>1. delivered' \in [Entry -> Nat]
    BY <1>1, <1>2
  <2>2. \A e \in Entry : e \notin rows => delivered'[e] = delivered[e]
    BY <1>1, <1>2
  <2>3. \A e \in rows : delivered[e] = 0
    BY <1>2 DEF DrainInv, ItemsInv
  <2> QED BY <1>1, <1>2, <2>1, <2>2, <2>3
<1>5. TypeOK' /\ CallInv'
  BY <1>1, <1>2, <1>3, <1>4 DEF DrainInv, TypeOK, CallInv
<1>6. ItemsInv' /\ NothingLost' /\ OnceUnlessGivenUp'
  BY <1>1, <1>2, <1>3, <1>4
     DEF DrainInv, ItemsInv, CallInv, NothingLost, OnceUnlessGivenUp, Occupied
<1>7. EachItemRead'
  <2> SUFFICES ASSUME op = "batch_get", NEW e \in Entry
               PROVE  /\ delivered'[e] <= 1
                      /\ e \notin pending' /\ KeyOf[e] \in stable => delivered'[e] = 1
    BY <1>1 DEF EachItemRead
  <2>1. CASE e \in rows
    BY <1>4, <2>1
  <2>2. CASE e \notin rows
    <3>1. delivered'[e] = delivered[e] /\ delivered[e] <= 1
      BY <1>4, <2>2 DEF DrainInv, EachItemRead
    <3>2. CASE e \in pending
      BY <1>2, <1>3, <2>2, <3>1, <3>2 DEF DrainInv, ItemsInv
    <3>3. CASE e \notin pending
      BY <3>1, <3>3 DEF DrainInv, EachItemRead
    <3> QED BY <3>2, <3>3
  <2> QED BY <2>1, <2>2
<1> QED BY <1>5, <1>6, <1>7 DEF DrainInv

\* The ways a call ends, or goes on, without an answer that lists anything.
LEMMA NoAnswerInv ==
    ASSUME DrainInv, DynamoRefuses \/ SdkRetry \/ TimeOut PROVE DrainInv'
PROOF
<1>1. /\ pc = "awaiting" /\ pending' = pending
      /\ done' = {} /\ rows' = {}
      /\ \/ sent' = {} /\ pc' \in {"idle", "drained"}
         \/ sent' = sent /\ pc' = pc
      /\ pc' = "drained" => pending' = {}
      /\ UNCHANGED <<op, table, applied, stable, delivered>>
  BY DEF DynamoRefuses, SdkRetry, TimeOut, EndCall
<1>2. /\ late \in [Entry -> 0 .. MaxLate] /\ givenUp \subseteq Entry
      /\ pending \subseteq Entry /\ sent \subseteq pending /\ done \subseteq sent
  BY DEF DrainInv, TypeOK
<1>3. /\ late' \in [Entry -> 0 .. MaxLate]
      /\ givenUp' \subseteq Entry /\ givenUp \subseteq givenUp'
      /\ done \subseteq givenUp'
      /\ \A e \in Entry : late'[e] > 0 => e \in givenUp'
  <2>1. CASE DynamoRefuses
    BY <1>2, <2>1 DEF DynamoRefuses, DrainInv, CallInv
  <2>2. CASE GiveUp
    <3>1. /\ late' = [e \in Entry |-> IF e \in sent \ done THEN late[e] + 1 ELSE late[e]]
          /\ givenUp' = givenUp \cup sent
          /\ \A e \in sent \ done : late[e] < MaxLate
      BY <2>2 DEF GiveUp
    <3>2. ASSUME NEW e \in Entry
          PROVE late'[e] \in 0 .. MaxLate /\ (late'[e] > 0 => e \in givenUp')
      BY <1>2, <3>1, BatchMaxAssumption DEF DrainInv, CallInv
    <3>3. DOMAIN late' = Entry /\ late' = [e \in Entry |-> late'[e]]
      BY <3>1
    <3> QED BY <1>2, <3>1, <3>2, <3>3
  <2> QED BY <2>1, <2>2 DEF SdkRetry, TimeOut
<1>4. TypeOK'
  BY <1>1, <1>2, <1>3 DEF DrainInv, TypeOK
<1>5. CallInv'
  BY <1>1, <1>2, <1>3 DEF DrainInv, CallInv
<1>6. ItemsInv' /\ NothingLost' /\ OnceUnlessGivenUp' /\ EachItemRead'
  BY <1>1, <1>3
     DEF DrainInv, ItemsInv, NothingLost, OnceUnlessGivenUp, EachItemRead, Occupied
<1> QED BY <1>4, <1>5, <1>6 DEF DrainInv

LEMMA DrainInvNext ==
    ASSUME DrainInv, [Next]_vars PROVE DrainInv'
PROOF
<1>1. CASE UNCHANGED vars
  <2>1. TypeOK' /\ CallInv' /\ ItemsInv'
    BY <1>1 DEF vars, DrainInv, TypeOK, CallInv, ItemsInv, Occupied
  <2>2. NothingLost' /\ OnceUnlessGivenUp' /\ EachItemRead'
    BY <1>1 DEF vars, DrainInv, NothingLost, OnceUnlessGivenUp, EachItemRead
  <2> QED BY <2>1, <2>2 DEF DrainInv
<1> QED
  BY <1>1, InterfereInv, ProcessInv, ProcessLateInv, SubmitInv, AnswerInv, NoAnswerInv
     DEF Next, Drained

\* The invariant of a batch that is worked off holds in every reachable state.
THEOREM DrainInvariant == Spec => []DrainInv
PROOF
<1>1. Init => DrainInv
  BY DrainInvInit
<1>2. DrainInv /\ [Next]_vars => DrainInv'
  BY DrainInvNext
<1> QED BY <1>1, <1>2, PTL DEF Spec

\* No entry is lost between DynamoDB, unprocessed_items and the next call.
THEOREM NoEntryLost == Spec => []NothingLost
PROOF
<1>1. DrainInv => NothingLost
  BY DEF DrainInv
<1> QED BY <1>1, DrainInvariant, PTL

\* Resubmission repeats nothing; only attempts that were given up do.
THEOREM NoEntryRepeated == Spec => []OnceUnlessGivenUp
PROOF
<1>1. DrainInv => OnceUnlessGivenUp
  BY DEF DrainInv
<1> QED BY <1>1, DrainInvariant, PTL

\* A batch_get delivers every stable item exactly once.
THEOREM ItemsReadOnce == Spec => []EachItemRead
PROOF
<1>1. DrainInv => EachItemRead
  BY DEF DrainInv
<1> QED BY <1>1, DrainInvariant, PTL

\* What others write over an entry the caller knows to be done stays, unless an
\* attempt with that entry was given up.
THEOREM AcknowledgedStays == Spec => AcknowledgedStaysDone
PROOF
<1>1. ASSUME DrainInv, [Next]_vars
      PROVE  [\A e \in Entry : table'[KeyOf[e]] = e /\ table[KeyOf[e]] # e
                => e \in pending \cup givenUp]_vars
  <2> SUFFICES ASSUME Next, NEW e \in Entry, table'[KeyOf[e]] = e, table[KeyOf[e]] # e
               PROVE  e \in pending \cup givenUp
    BY <1>1
  <2>1. /\ DOMAIN table = Key /\ KeyOf[e] \in Key
        /\ sent \subseteq pending
        /\ \A f \in Entry : late[f] > 0 => f \in givenUp
    BY <1>1 DEF DrainInv, TypeOK, CallInv, Key
  <2>2. ASSUME NEW k \in Key, Interfere(k) PROVE FALSE
    BY <2>1, <2>2, EntryAssumption DEF Interfere
  <2>3. ASSUME NEW f \in Entry, CarryOut(f) PROVE f = e
    BY <2>1, <2>3 DEF CarryOut
  <2>4. ASSUME NEW f \in Entry, Process(f) PROVE e \in pending
    BY <2>1, <2>3, <2>4 DEF Process
  <2>5. ASSUME NEW f \in Entry, ProcessLate(f) PROVE e \in givenUp
    BY <2>1, <2>3, <2>5 DEF ProcessLate
  <2>6. CASE UNCHANGED table
    BY <2>6
  <2> QED
    BY <2>2, <2>4, <2>5, <2>6 DEF Next, Submit, Answer, EndCall, DynamoRefuses,
       SdkRetry, TimeOut, Drained, vars
<1> QED BY <1>1, DrainInvariant, PTL DEF Spec, AcknowledgedStaysDone

LEMMA InitRefines ==
    ASSUME Init PROVE Batch!Init
PROOF BY DEF Init, Batch!Init, Key

LEMMA CarryOutApplies ==
    ASSUME NEW e \in Entry, CarryOut(e), UNCHANGED <<op, pending, givenUp>>,
           (e \in pending /\ applied[e] = 0) \/ e \in givenUp
    PROVE  Batch!Next
PROOF
<1>1. Batch!Apply(e)
  BY DEF Batch!Apply, CarryOut
<1> QED BY <1>1 DEF Batch!Next

\* Every step of a batch is a step of the abstract batch, or none.
LEMMA NextRefines ==
    ASSUME DrainInv, [Next]_vars PROVE [Batch!Next]_(Batch!abstractVars)
PROOF
<1> USE DEF Batch!abstractVars
<1>0. /\ sent \subseteq pending /\ pending \subseteq Entry /\ done \subseteq sent
      /\ givenUp \subseteq Entry /\ applied \in [Entry -> 0 .. 2]
  BY DEF DrainInv, TypeOK
<1>1. ASSUME NEW k \in Key, Interfere(k) PROVE Batch!Next
  <2>1. Batch!Interfere(k)
    BY <1>1 DEF Interfere, callVars, Batch!Interfere
  <2> QED BY <2>1 DEF Batch!Next, Key
<1>2. ASSUME NEW e \in Entry, Process(e) PROVE Batch!Next
  <2>1. CarryOut(e) /\ UNCHANGED <<op, pending, givenUp>> /\ e \in sent \ done
    BY <1>2 DEF Process
  <2>2. e \in givenUp \/ (e \in pending /\ applied[e] = 0)
    BY <1>0, <2>1 DEF DrainInv, CallInv
  <2> QED BY <2>1, <2>2, CarryOutApplies
<1>3. ASSUME NEW e \in Entry, ProcessLate(e)
      PROVE  Batch!Next \/ UNCHANGED Batch!abstractVars
  <2>1. e \in givenUp /\ UNCHANGED <<op, pending, givenUp>>
    BY <1>3 DEF ProcessLate, callVars, DrainInv, CallInv
  <2>2. CASE CarryOut(e)
    BY <2>1, <2>2, CarryOutApplies
  <2>3. CASE UNCHANGED <<applied, table, stable>>
    BY <2>1, <2>3
  <2> QED BY <1>3, <2>2, <2>3 DEF ProcessLate
<1>4. CASE Answer
  <2>1. Batch!Acknowledge(done)
    BY <1>0, <1>4 DEF Answer, EndCall, Unprocessed, Batch!Acknowledge, DrainInv, CallInv
  <2> QED BY <1>0, <2>1 DEF Batch!Next
<1>5. CASE SdkRetry \/ TimeOut
  <2>1. Batch!Doubt(sent)
    BY <1>0, <1>5 DEF SdkRetry, TimeOut, GiveUp, EndCall, Batch!Doubt
  <2> QED BY <1>0, <2>1 DEF Batch!Next
<1>6. CASE DynamoRefuses \/ (\E batch \in SUBSET Entry : Submit(batch))
  BY <1>6 DEF DynamoRefuses, EndCall, Submit
<1>7. CASE UNCHANGED vars
  BY <1>7 DEF vars
<1> QED
  BY <1>1, <1>2, <1>3, <1>4, <1>5, <1>6, <1>7 DEF Next, Drained

\* Calls, unprocessed entries, retries and timeouts implement at-least-once
\* delivery of independent entries.
THEOREM BatchRefinement == Spec => AtLeastOnceSpec
PROOF
<1>1. Init => Batch!Init
  BY InitRefines
<1>2. DrainInv /\ [Next]_vars => [Batch!Next]_(Batch!abstractVars)
  BY NextRefines
<1> QED BY <1>1, <1>2, DrainInvariant, PTL DEF Spec, AtLeastOnceSpec, Batch!Spec

\* Every answer leaves the caller with fewer entries, and no failed call with
\* more.
THEOREM AnswersWorkOff == Spec => AnswersProgress
PROOF
<1>1. DrainInv /\ [Next]_vars
        => [/\ pending' \subseteq pending
            /\ Answer => Cardinality(pending') < Cardinality(pending)]_vars
  <2> SUFFICES ASSUME DrainInv, Next
               PROVE  /\ pending' \subseteq pending
                      /\ Answer => Cardinality(pending') < Cardinality(pending)
    OBVIOUS
  <2>1. /\ done \subseteq sent /\ sent \subseteq pending
        /\ pending \subseteq Entry /\ IsFiniteSet(pending)
    BY FS_Subset, FiniteAssumption DEF DrainInv, TypeOK
  <2>2. ASSUME Answer
        PROVE  pending' \subseteq pending /\ Cardinality(pending') < Cardinality(pending)
    <3>1. pending' = pending \ done /\ done # {}
      BY <2>1, <2>2 DEF Answer, EndCall, Unprocessed
    <3>2. pending' \subseteq pending /\ pending' # pending
      BY <2>1, <3>1
    <3>3. /\ Cardinality(pending') <= Cardinality(pending)
          /\ Cardinality(pending') # Cardinality(pending)
      BY <2>1, <3>2, FS_Subset
    <3>4. Cardinality(pending) \in Nat /\ Cardinality(pending') \in Nat
      BY <2>1, <3>2, FS_Subset, FS_CardinalityType
    <3> QED BY <3>2, <3>3, <3>4
  <2>3. ~Answer => pending' = pending
    BY DEF Next, Interfere, callVars, Process, ProcessLate, Submit, DynamoRefuses,
           EndCall, SdkRetry, TimeOut, Drained, vars
  <2> QED BY <2>2, <2>3
<1> QED BY <1>1, DrainInvariant, PTL DEF Spec, AnswersProgress

=============================================================================
