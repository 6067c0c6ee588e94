# A TLA+ development of the DynamoDB backend plugin

This directory specifies, model-checks and partly proves the behaviour of the
plugin in `src/src/`: a gateway loads it as a dynamic library, registers
*bindings* with it (a DynamoDB table, one operation on it, limits, a surface)
and then executes calls against them. Paths below are relative to the
repository (`exec.rs` is its `src/exec.rs`).

## 1. The system

| Part | Code | State | Operations | What makes it correct |
|---|---|---|---|---|
| Registry and registration | `lib.rs` 56-118, 386-412; `exec.rs` 37-62; `config.rs` | `RwLock<BTreeMap<name, Arc<ProfileRuntime>>>` | `register_profile`: parse and validate, compile params, build the client (await), take the write lock, insert | a name maps to nothing but a binding that was accepted and built; a name once registered is never missing |
| Execute | `lib.rs` 414-548; `exec.rs` 64-660 | one snapshot of a binding per call | look up, parse, bind params, check arguments, send under a timeout, count, audit, shape the answer | rejected means never sent; answered with success means executed; every call is answered |
| Observability | `lib.rs` 120-236 | none (host counters and audit log) | `emit_host_observability`, called from four places in `execute` | once per call, with the label the caller's answer has |
| Argument checks | `exec.rs` 89-192, 215-619 | none | per operation: required arguments, their types, the key schema, the batch ceiling | a caller cannot address anything outside the key schema |
| Surface shaping | `surface.rs` | none | tool, resource and prompt bodies; resource pages | an answer has the body the surface's decoder wants |
| Listing and pagination | `lib.rs` 598-632; `exec.rs` 177-192, 383-470, 662-736 | none; the client holds the cursor | one Scan or Query per page | nothing twice, nothing stable missed, no page above the limit |
| Batches | `exec.rs` 472-660 | none; the caller holds what is left to do | one BatchGet or BatchWrite; what DynamoDB leaves over goes back to the caller in the shape it came in | a caller that resubmits what comes back loses nothing and repeats nothing it need not |
| Completion | `lib.rs` 634-665; `exec.rs` 736-776; `surface.rs` 60-72 | none | one Query with the bound `:prefix`, a cut and a filter | candidates match what was typed, at most `max_results`, without gaps |
| Poll watch | `watch.rs` | the SDK helper's last cursor, one thread per watch | `watch`, one tick per interval, `cancel` | a notification per advance of the cursor, none without a change; what becomes of a cursor that falls back is the SDK helper's, and left open |
| CEL params | `params.rs`; `exec.rs` 131-153 | compiled programs in the binding | evaluate per call, lower to scalars, merge over the caller's values | the operator's value wins, the caller's others arrive, numbers keep their value |
| Marshaller | `marshal.rs` | none | JSON to AttributeValue and back | what is read can be written back and changes nothing |
| Validation of a binding | `config.rs` 252-419 | none | `parse`, `validate`, endpoint check | what is accepted can be served, a refusal names what to repair |
| Input schema | `lib.rs` 248-374, 550-567 | none | `input_schema` | the schema and the handlers ask for the same |
| Bridge | `cdylib.rs` | a tokio runtime | every call blocks its host thread on it | calls of several host threads run at once |

**Interaction.** The host calls the bridge on threads of its own, so
registrations and executions interleave freely; they share the registry and
nothing else. A call reads the registry once (`profile`, under the read lock,
cloning an `Arc`). Requests leave through the AWS SDK, which repeats an attempt
that looks lost; the timeout of `timed` drops the SDK's future but does not
recall what is on the wire. The poll watch has its own client and thread and
shares no state with the backend.

**What is hard** (the full list, with lines, is `hazards` in `PROJECT.json`):
re-registration racing calls and other registrations; the snapshot a call
keeps; the lock and the awaits around it; writes that happen after their caller
was told of a timeout, or twice; four places in `execute` that emit metrics, each
with a label of its own; a page that fails, is empty, or is read while the table changes;
the cast of a caller's limit; a watch whose ticks fail and read stale replicas;
batches that are carried out in part, twice or late; a name that is
re-registered with another table in the middle of a listing; numbers that pass
through i64, u64 and f64; the same fields of a specification looked at twice,
at registration and at each call.

## 2. Modules

| Module | What it is |
|---|---|
| `Requests` | What the handlers of `exec.rs` ask of a call's arguments, as operators on a record per binding and per call. `Admissible(b, a)` is "the handler builds a request"; it is the conjunction of required arguments (`Required`), JSON and DynamoDB-JSON types (`TypeChecked`), and the key schema (`AddressesKeySchema`, one conjunct per family of operations). |
| `DynamodbBackend` | The state machine: `register_profile` as `BeginRegister` (parse, validate, compile), `FinishBuild` (the client), `TakeWriteLock`, `InsertProfile`; `execute` as `BeginExecute`, `LookupProfile`, one action per early return (`RejectPayload`, `RejectParams`, `RejectRequest`), `SendRequest`, the SDK (`SdkRetry`, `SdkFails`, `SdkSucceeds`), `TimeOut`, `EmitMetrics`, `EmitAudit`, `ReturnResponse`; and the outside: `DynamoExecutes`, `DynamoRefuses`, `LoseAttempt`. |
| `BindingService` | The abstract specification of the above: registrations take effect atomically, a call resolves its name once and is bound to what it found, and its answer is one that this permits. No lock, no SDK, no network. |
| `Listing` | A client that walks through a table page by page, by `resources/list` or by query/scan calls, while others write to it; the effective limit with its integer width. |
| `Enumeration` | What a client that lists a table to its end is promised, without pages, cursors and failures; `Listing` implements it. |
| `Relisting` | `list_resources` and the registry together: the name is re-registered between the pages of a walk, with another table, another key schema, another page size or no listing; cursors get spoilt. Key schemas decide which cursors a table takes. |
| `BatchDrain` | A caller with more entries than fit a batch, `batch_write` or `batch_get`, and a DynamoDB that carries out any part of what it is sent: submit, answer with the unprocessed rest, retry, time out, be refused. |
| `AtLeastOnce` | The abstract specification of that: entries that are independent of each other, carried out at least once, more often only in doubt. |
| `PollWatch` | The `dynamodb_poll` watch over a table with lagging replicas. |
| `ChangeNotifier` | The abstract specification of that: marks, one signal for each advance, and moves back with or without one. |
| `Completion` | A client that types and erases; `complete_template_variable` with its limit, cut and filter. |
| `ExpressionValues` | `evaluate_params` and `merged_expr_values`: JSON numbers to CEL, CEL to `N`, and the merge. |
| `Marshal` | `json_to_av` and `av_to_json` as recursive functions on the values there are, what DynamoDB makes of an item, and a client that sends a document, reads the item and writes it back while others write. |
| `Specification` | `DynamodbSpec::parse` as a sequence of checks, an operator that edits and follows the messages, and the requests that listings and completions build from what was accepted. |
| `Schemas` | `input_schema` against `Requests`: the schema a client sees and what the handlers demand. |
| `MC*` | The values of the constants for TLC. |
| `*Proofs` | The theorems and their proofs: `BackendProofs`, `ListingProofs`, `RelistingProofs`, `BatchProofs`, `PollWatchProofs`, `CompletionProofs`, `ValueProofs` (`ExpressionValues` and `Marshal`), `SpecificationProofs` (`Specification` and `Schemas`). |

Compositions: `DynamodbBackend` has the registry, the calls and the network;
`Relisting` has the registry and the listing; `Schemas` extends `Requests`, as
the backend does. The other modules describe code that shares no state with
the rest.

Definitions named in comments as `Variant` are plausible mistakes in the code
(a dropped guard, a swapped cursor); no specification uses them. Each property
is checked to fail when one of them replaces the definition it varies.

### State and code

* `profiles` is the map, `writer` the registration inside `write()`. A read
  (`LookupProfile`) waits for the writer, and is one step because the guard is
  dropped in the same expression. `reg[r].pc = "building"` is the await of
  `build_client`.
* `call[c].pc` is where `execute` stands: `lookup`, `parsing` (a binding is
  known, nothing was sent), `awaiting` (inside `timed`), `metrics`, `audit`,
  `shaping`, `returned`. `call[c].profile` is the cloned `Arc`.
* `result` is the `Result<Value, OpError>`, `label` the outcome label,
  `response` what the host is given. `Observe` is a call of
  `emit_host_observability` from one of its four places; `EmitMetrics` and
  `EmitAudit` are its body, `ReturnResponse` is what follows it. The host
  handle that the body needs is installed before the first call. `net[c][k]` is the k-th attempt of the
  request, `executed[c]` the attempts DynamoDB carried out.
* In `Listing`, `start` is the cursor the client holds, `pos`, `count` and
  `page` are the request under way inside DynamoDB, `listed` counts how often a
  key was delivered; `stable` is a history variable.
* In `PollWatch`, `seen` is the helper's last cursor, `sample` the result of the
  closure, `fires` the calls of `emit_event`; `changes` is a history variable.
  `serving` says which replicas share the reads.
* In `Relisting`, `using` is the `Arc` of the page under way, `cursor` what the
  client holds; `sources`, `listed`, `stable` and `cut` are history variables:
  the tables that served the walk, and what each of them gave and kept.
* In `BatchDrain`, `pending` is what the caller still has to do, `sent` the
  batch under way, `done` what DynamoDB has carried out of it, `rows` the items
  of a batch_get; `late` are given-up requests still on their way. `table` says who wrote a key last. `applied`,
  `delivered`, `givenUp` and `stable` are history variables.
* In `Completion` an item is a place in the index order; one character is
  typed at a time, and what matches a longer prefix is a run of places inside
  what matches a shorter one. `settled` says whether the partition is still
  the one the answer was read from.
* In `ExpressionValues` numbers are counted in halves, so that a float may have
  a fraction; `Floats` is what an f64 holds, `Threshold` the 1e15 of `format_n`.
  `Shortest` is what `format!("{f}")` prints: of the decimals that are read as
  the float again one with the fewest digits (`Length`, which does not count the
  zeros that only pad it), and of these the closest.
* In `Requests` an entry of a batch_write has `put`, `delete`, both or neither,
  and may have other keys (`stray`).
* In `Marshal` a value is a pair of tag and content, and texts are classes: a
  word, `NaN`, an integer beyond f64's precision, a number DynamoDB refuses.
  `Json` and `Av` are the values there are, `Depth` how deep each is nested;
  a conversion that returns a `MarshalError` gives `Nothing`. `sent` is the
  item that `marshal_item` made, `stored` what the table holds, `answer` what
  `get_item` returned. Three things are assumed of the values, and evaluated by
  TLC in the run: the parts of a value are values and less deep
  (`JsonAssumption`, `AvAssumption`, which also give bytes and flags their
  types), and what is made of a value is a value (`ClosureAssumption`).
* In `Specification` a draft is a function from fields to classes of values;
  URLs are sequences of tokens, because the endpoint check cuts at one.

### Outside the repository

The AWS SDK's retries, the network, DynamoDB's order of evaluation and its
replicas, other users of the table, and the polling helper of `mcpg_plugin_sdk`
(`spawn_polling_watch`) are modelled from how the code uses them and what its
comments and `plugin.yaml` say of them. The helper's source is not here. The
model takes for granted what the documents say of it: no cursor is no signal,
the first one is the baseline (`plugin.yaml` 41-42), a larger one is signalled
(`watch.rs` 7-8). Of a smaller one they say nothing but that it is no advance, so
`FallBack` permits what the three comparisons a helper could make would do:
keep the mark, take the smaller one silently, or take it and signal. Nothing in
section 3 or 4 depends on which it is.

## 3. Runs

| Run | Instance | Shows |
|---|---|---|
| `backend_calls` | 1 name, 2 registrations, 1 call, 2 attempts, 4 bindings (tool, resource, prompt, refused), 12 kinds of arguments | `ObservedOnce`, `RejectedNeverSent`, `AcknowledgedWasExecuted`, `StragglerExplained`, `NeverMissesARegisteredName`, `ServiceSpec` (refinement of `BindingService`); under fairness `EveryCallAnswered`, `RegistrationTakesEffect` |
| `listing` | 4 keys, page sizes 2 and 3, seven limits, requests of 4 bits | `ListedOnce`, `StableListed`, `EnumerationSpec` (refinement of `Enumeration`); under fairness `WalkEnds` |
| `relisting` | 3 keys, 3 tables, two of them with equal key schemas and opposite orders, 5 bindings | `OnceFromOneTable`, `CompleteFromOneTable`, `SchemasNeverMix` |
| `batch` | 3 entries (two on one key, one of them a deletion), batches of 2, one late request per entry | `NothingLost`, `OnceUnlessGivenUp`, `EachItemRead`, `AcknowledgedStaysDone`, `AtLeastOnceSpec` (refinement of `AtLeastOnce`); under fairness `Drains` |
| `poll_watch` | 2 items, 2 writes, one replica or two that lag independently, with and without a key condition | `FiresHaveChanges`, `NotifierSpec` (refinement of `ChangeNotifier`); under fairness `AdvanceIsNoticed`, `FallsSilent` |
| `completion` | 3 places, one character, a page of 2 items at most, four bindings | `WithinCap`, `OnlyMatches`, `NoneWithheld`, `NarrowingKeeps` |
| `expression_values` | 2 placeholders, integers of 4 bits, floats of 3 bits of mantissa, decimals up to 60 | `OperatorDecides`, `IntegersArrive`, `FloatsArrive` |
| `marshal` | every tag over every kind of content, nested two levels; foreign items with an unknown variant | `Lossless`, `EchoIsAccepted`, `EchoChangesNothing` |
| `specification` | 22 fields, draft and binding together two edits away from a good one, pages up to 3 | `CallsNeverBlameTheSpec`, `LimitsInRange`, `RepairsGetFurther` |
| `schemas` | 8 operations, with and without sort key, hints and params; calls wrong in one way, or in one way and one thing forgiven (nulls, defaulted values, other keys of a write request) | `ConformingCallsAreTaken`, `TakenCallsConform` |
| `doc_limit`, `doc_scan_watch` | small | violated: see section 6 |

The runs check what the code is relied on for. The inductive invariants of
section 4 (`BackendInv`, `ListingInv`, ...), which contain the type invariants,
hold in these instances too and are proved, so no run repeats them.

**Bounds.** Calls share nothing but the registry, which they only read, so one
call meets everything a call can meet there, and holds no lock another could
wait for. Two registrations are the smallest number
that can overtake each other or replace a binding under a call. Two attempts are
the smallest number with a retry and a straggler. `BatchMaxItems` is 2 for 25;
batches in the instances are valid, empty, too large or have a bad entry. Four keys give two
full pages and a rest, with a filtered item and a row without uri in different
pages. Two writes on top of a first item, and deletions, let the watch fall
behind twice and go back; `MaxFires` is above the number of changes these
bounds allow. Three tables are one
whose cursors another takes and one that refuses them. Three entries are a full
batch and a rest, with two writes of one key that can overtake each other; a
second late request per entry (`MaxLate`) adds nothing that the proof does not
cover. The widths of `expression_values` put -8, 7, 15 and the values beyond on
both sides of what i64, u64 and f64 hold, and the threshold inside; from 8 on
floats leave out integers, and 48 is printed as 50. `MaxEdits`
bounds how many fields differ from a good specification at once: two faults is
what the order of checks is about, and no property relates three fields. Two
levels of nesting reach every recursive call of the marshaller twice; `MaxDepth`
only has to be above them. The theorems of section 4 remove these bounds for
every safety property that a run checks.

**Fairness.** `DynamodbBackend`: weak fairness of the steps the plugin's own
threads take (`LocalStep`), of its timer, and of the lock's hand-over; none of
the SDK, the network, DynamoDB or the credential chain, which is what makes
`EveryCallAnswered` say something. Weak fairness of `TakeWriteLock` is enough
because registrations are finite in the model, and `std::sync::RwLock` never
leaves a waiting writer behind for good when its holders never block.
`Listing`: the client asks again after a failure (weak), and pages do not fail
for ever (strong, on DynamoDB's steps): without it no listing could end.
`PollWatch`: the thread ticks, replicas catch up (weak), and reads do not fail
for ever (strong). `BatchDrain`: every call ends (weak: the timeout sees to
that); the caller does not for ever submit batches that name a key twice, and
DynamoDB does not for ever carry out nothing of what it is sent or answer only
after the timeout (strong): without either, resubmitting never ends.

**Deadlock** is checked in every run; the states in which nothing is left to
happen have a stuttering disjunct of their own (`Quiescent`, `Ended`, `Done`).

## 4. Proofs

`tlapm` checks the eight modules to the last leaf.

**`BackendProofs`**, from `BindingAssumption`, `ArgsAssumption`,
`AttemptsAssumption` and `NoneAssumption` only:
`BackendInvariant` shows `[]BackendInv`; `TypeCorrect`, `ServedBindings`,
`RejectedCalls`, `Acknowledged` and `Observed` follow from it state by state;
`Stragglers` and `NamesAreFound` are action properties that follow from it and
the step; `Refinement` shows that `Spec` implements `BindingService`.

None of the properties is inductive. That a successful answer was executed,
for example, needs: an attempt that is `acked` is in `executed` (`NetInv`); a
call whose result is `ok` had its current attempt acked, and a lost answer does
not undo the execution (`NetInv`); only lawful requests are attempted at all
(`AttemptInv`); the response is the function of profile, arguments and result
that `ReturnResponse` computed (`EmissionInv`); and the result decides the
label (`LabelInv`). `ProgressInv` ties all of it to the place in `execute`,
`RegistrationsInv` to the registrations: the lock is held by the one that is
about to insert, and a registered name has a binding. `Observed` says of the
answer itself what was counted and audited, with one exception, the answer that
section 6 lists (`DoneWithoutUri`); that there is no other needs that a call
refused by the plugin had no attempt, and so nothing executed. The proof has one lemma
per action; what an action leaves alone is carried over by frame lemmas.

The refinement maps `TakeWriteLock`, `FinishBuild`, the checks, `SendRequest`,
the SDK and the emissions to stuttering, `InsertProfile` to `TakeEffect`,
`LookupProfile` to `Resolve`, `DynamoExecutes` to `CarryOut` and
`ReturnResponse` to `Answer`.

**`ListingProofs`**, from the assumptions of `Listing`: `NarrowShrinks` (a cast
never makes a limit larger) and `LimitBounds`, then `ListingInvariant`. Its
heart is `StretchInv`, the page under way is what is stable in the stretch from
`start` to `pos`, and `DeliveredInv`, nothing after `start` was delivered and
everything stable before it was. `NothingListedTwice`, `NothingStableMissed`
and `PagesAreBounded` follow, for tables of every size, every filter, every
limit and every width.

`TypeCorrect` is part of the invariant;
`ListingRefinement` maps `Begin`, each non-empty `Deliver` and the end to the
steps of `Enumeration`, and every other step of the walk to stuttering.
`NoCursorTwice` is the part of `WalkEnds` that is in the prover's reach: with
`ReachInv`, a page under way has passed as many keys as it evaluated items, no
walk can go round in circles. `FittingLimits` says for which limits the
documentation is right (section 6).

**`RelistingProofs`**, from `RelistingAssumption`. `RelistingInv` adds to the
three properties `PositionInv`, what a cursor stands for: it is of the schema
of every table the walk read, and in a walk of one table nothing after it was
delivered and everything stable up to it was. It speaks of the order of the
table that served the walk, so it survives a binding of another table in
between: such a page makes `sources` two tables, and the claim void.

**`BatchProofs`**, from `EntryAssumption` and `BatchMaxAssumption`. That nothing
is lost depends on what is known of the call under way (`CallInv`: what is done
was carried out; what is pending and was carried out is done or in doubt; late
requests are of attempts that were given up) and of the items found
(`ItemsInv`). `BatchRefinement` shows that calls, batches, retries and timeouts
are `AtLeastOnce` with the given-up entries as the doubtful ones.
`AnswersWorkOff`, for a finite set of entries (`FiniteAssumption`), is what
`Drains` rests on besides fairness: answers never come back with nothing done.

**`PollWatchProofs`**, from the assumptions of `PollWatch`. `FiresHaveChanges`
is not inductive: a change is made before it is replicated, read and signalled.
`OwedInv` counts what is owed, one for a sample that differs, one for a replica
the watch has not read, one for a replica behind the table, and every step
moves one of these to the next; a helper that keeps its mark owes at most what
it owed before (`OwedDiff`). `WatchRefinement` maps the diff to taking a
baseline, to a signal, to a retreat or to stuttering, and ticks, failures and
replication to stuttering; a signal that is sent has a change left to stand for
(`SignalIsOwed`). `NoneSwallowed` says of the steps themselves that the watch
never loses its baseline and never moves on without a signal.

**`CompletionProofs`**, from the assumptions of `Completion`. What carries
`NoneWithheld` and `NarrowingKeeps` is a lemma on the operator `First`: the
first n of a set of places keep an element when the set shrinks around it,
because no more places come before it than did.

**`ValueProofs`**, first part, from the assumptions of `ExpressionValues`.
`IntegersAreKept` needs that an integer in range is never turned into a float
(`NumberToCel` tries i64, then u64). `FloatsAreKept` needs that the cast happens
below `Threshold` only, which is not above `IntMax`, and two facts of what is
displayed: it is read as the same float (`ShortestIs`), and is the integer
itself where floats leave out none (`IntegersDisplayed`: what is read as it is
then at most a half away, and by `DecimalAssumption` a fraction has no fewer
digits than the integers next to it).

Second part, from the assumptions of `Marshal`. That nothing is lost is a fact
about recursive functions, for values of any depth. The prover knows such a
function only as a `CHOOSE` among the functions that satisfy its equation, so
the first thing to show is that one does (`JsonToAvIs`, `AvFunctionsAre`):
functions that are right below a depth can be extended to the next one, since
what a conversion makes of a value depends on its parts only (`AvOfParts`,
`OfParts`), and there is a greatest depth. Facts about all values are then
proved for a value from those about less deep ones (`Deepen`; the induction is
over the set of values that have the fact, and rests on the least element of a
set of naturals, `LeastNumber`, so no theorem with an operator parameter is
needed): `ShownAsGiven`, what `json_to_av` made of a value shows as that value;
`StoredStays`, storing what is stored changes nothing; `EchoIs`, what is stored,
shown, and read again is storable, and the same if the SDK knows its types.
`MarshalInv`, that what is sent is what the document converts to and that the
table holds what DynamoDB stores, turns these into `ConversionIsLossless`,
`EchoIsTaken` and `EchoIsHarmless`. `MaxDepth` stands for the 128 levels that
`serde_json` parses, beyond which a document never reaches the plugin; the
theorems hold whatever it is.

**`SpecificationProofs`**, from the assumptions of `Specification`. `SpecInv`
says that the binding passed all checks, and a call was built of it; a clamp of
any number to a page size above zero is between one and it (`ClampedInRange`).
`RepairInv` says what a refusal means while the operator repairs the draft: its
check is the first that fails, and once repaired only later ones do.
`RepairsArrive` needs that a repaired check passes (`RepairPasses`), that no
earlier one begins to fail, which rests on what each check reads
(`CheckedFields`, `ChecksRead`), and `BaseAssumption`: the specification from
which the repairs are taken is good itself.

For `Schemas`: `SchemasInv` ties the
schema a client holds and the verdict on its call to the binding registered
now, so that a re-registration never leaves it with the schema of another one.
`SchemaFollowsHandlers` compares the tables of `lib.rs` and `exec.rs` operation
by operation, and `ConformingCalls` and `TakenCalls` follow for bindings and
calls of every kind. `TakenCalls` excepts what the handlers forgive
(`Forgiven`): nulls, values that fall back to a default, and other keys of a
write request. `TypeAssumption` says that an operation is one of the
eight and that keys and requests are sequences.

Only model-checked: the liveness properties (`EveryCallAnswered`,
`RegistrationTakesEffect`, `WalkEnds`, `AdvanceIsNoticed`, `FallsSilent`,
`Drains`), which are out of the prover's reach, and the behaviour of the
`doc_*` runs. Every other property of a run is a theorem.

## 5. Not modelled

Contents of results, JSON layout, `output_schema` and `audit_metadata` (they
copy fields of the binding or are constant, and change no state); `truncated`;
spans, durations and reasons; building the watch's client, which happens before
its first step and shares nothing; poisoning of the lock (no code panics while
it is held); the CEL language; whether an expression uses the placeholders that
are bound, which DynamoDB decides from texts. `Requests` says of values only
whether they are well formed and whether keys have their declared type; in
`DynamodbBackend` registration's validation is one bit, `accepted`, which
`Specification` opens up.

## 6. Where documentation and code part

Two of these have a run that violates what the document says:

* `doc_limit`: `README.md` 38 says `limit` is clamped to `max_page_size`. The
  cast in `clamp_limit` comes first, so 2^31 becomes negative and 2^32 zero
  (`exec.rs` 180). Below 2^31 the sentence is true (`FittingLimits`).
* `doc_scan_watch`: `README.md` 273-275 and 303 promise a high-water scan
  ordered by the cursor. A Scan with a limit of one returns the table's first
  item whatever its cursor is (`watch.rs` 232).

The others are modelled as the code has them and need no run to be seen:

* `README.md` 146 promises an audit event on a failure. A resource read without
  any `uri` is carried out, counted as `ok`, not audited, and answered with an
  error (`lib.rs` 522; `ReturnResponse` after `EmitMetrics`). It is the one
  exception in `ObservedOnce`.
* `README.md` 319 says bad arguments are a tool error and never a 5xx. A key
  value of a type other than declared is not noticed by `validate_key` and
  comes back as a transport failure (`exec.rs` 158; `DynamoRefuses`).
* `config.rs` 319 lists `[::1]` among the hosts that plain http is allowed for,
  but 318 cuts the host at its first colon, so that an IPv6 loopback endpoint
  is always refused (`Specification!Host`).
* `config.rs` 380-382 says a misconfigured listing never reaches a
  `resources/list` call. An empty map of values, or values without a filter
  expression, marshal, are registered, sent, and refused by DynamoDB.
* `config.rs` 111 and 403 say a completion's key condition must bind `:prefix`.
  The check is for the text, which `:prefixes` contains; the Query then binds a
  value the expression does not use (`exec.rs` 753).
* `plugin.yaml` 39-41, `README.md` 275 and `watch.rs` 7-8 promise a signal only
  when the cursor advances. A deletion of the newest item or a lagging replica
  hands the helper a smaller cursor (`watch.rs` 230, 255), and whether that is
  taken for an advance is decided in the SDK, which is not here. Nor does the
  plugin give the helper an order to compare by: the cursor goes over as a text
  (`cursor_from_item`, `watch.rs` 148-157), in which "9" is after "10", so a
  helper that compared texts would miss an advance of a number's digits, and one
  that looks for a difference signals moves back.
* `lib.rs` 334-341 closes the entries of `requests` (`additionalProperties:
  false`) and calls each "exactly one of" `put` and `delete`. The handler looks
  at these two and ignores other keys (`exec.rs` 575-580), so it takes
  `{put, other}`, which the schema forbids; and the schema takes entries with
  both or neither, which the handler refuses (`Schemas!Untold`).
* `params.rs` 117-118 says `format_n` only drops a trailing `.0`. Whole floats
  from 1e15 on are displayed with the fewest digits that tell them from other
  floats and padded with zeros: 2^60 is sent as 1152921504606847000.0. That is
  read as the same f64, but DynamoDB compares decimals; `FloatsArrive` promises
  the number itself only below 2^53.

## 7. Plan

Done: every module of section 2. What is left:

1. Global and local secondary indexes in `Listing`, whose cursors have the keys
   of the table as well as those of the index.
