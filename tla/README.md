# DocFactory in TLA+

DocFactory turns uploaded PDFs into structured records. An API or a storage event
creates a document row; a worker's consumer threads take it through parsing and
extraction over SQS-style queues; a model provider answers behind a circuit breaker
and a per-tenant budget; a routing rule approves the result or sends it to a human;
healing sweeps pick up what was stranded. This directory models that machinery in
TLA+, with the evaluation harness that decides what may be deployed, model-checks it with
TLC on small instances, and proves its central safety properties with TLAPS for every size.

Paths below are relative to the repository; `core/` is
`packages/core/docfactory_core/` and `worker/` is `apps/worker/docfactory_worker/`.

## 1. The system

| Component | State it keeps | Operations | Interacts with |
|---|---|---|---|
| Document statuses (`core/models.py`) | `documents.status`, `updated_at`, `reap_count`, `last_error` | written by everyone below | shared row, locked per transaction only |
| Stage queues (`core/queues.py`, `infra/terraform/data-plane/queues.tf`) | messages of ingest, parse, extract and their DLQs | send, receive, delete, redrive policy, retention | consumers, healing, API |
| Consumers and handlers (`worker/consumer.py`, `worker/handlers.py`) | the delivery each thread holds | `run_once`, `handle_ingest`, `handle_parse`, `handle_extract`, deferrals, failure recording | rows, object store, queues, breaker, budget, review |
| Healing (`core/healing.py`) | the sweep's candidate list | `reap_stuck_documents`, `redrive_dlq` | rows, queues; one sweeper per worker and one in the API |
| Backpressure (`core/backpressure.py`) | rate-limit buckets | `admits`, token bucket | gate of both handlers; API |
| API (`apps/api/docfactory_api/main.py`) | none of its own | upload (row, then message), reads, reaper thread | rows, queues |
| Ingest (`core/ingest.py`) | the `(tenant, sha256)` uniqueness | storage event to row | rows, queues |
| Review (`core/review.py`) | review tasks, corrected fields | open, resolve, correct | rows, extractions |
| Circuit breaker, retry (`core/resilience.py`) | failures, `opened_at`, probe flag, per process | `allow`, `record_*`, `reset`, `retry_transient`, `classify` | extract handler, provider |
| Budget and metering (`core/budget.py`, `core/metering.py`, `core/extraction.py`) | `tenant_spend`, `usage_events` | reserve, settle, release, record usage | extract handler of every worker |
| Drift (`core/drift.py`) | one `drift_stats` row per tenant and type | observe, flag | extract transaction |
| Routing, confidence (`core/routing.py`, `confidence*.py`) | none | score, decide, escalate | extract handler, evals |
| Definitions, field checks (`core/pipeline.py`, `grounding.py`, `dates.py`) | none | parse, evaluate rules | API, extract handler, evals |
| Extraction (`core/extraction.py`, `llm/`) | none | call, correct once, refuse | extract handler, evals |
| Evaluation (`packages/evals`) | datasets and reports | gate, calibrate, drift experiment | definitions, drift row |
| Tenant context (`core/db.py`, `core/auth.py`) | the bound tenant of a session | bind, query under RLS | everyone |
| Supervision (`worker/main.py`) | thread table, heartbeat | start, watch, stop | ECS |
| PDF parsing, storage; infrastructure | none | I/O | callers |

Behaviours that are hard here:

* **Interleaving.** Each handler is a sequence of transactions, object-store calls,
  queue calls and model calls. Nothing is locked across them, so duplicates of a
  message, both sweeps and the reviewer interleave with every handler.
* **At-least-once delivery.** A delete may fail, a visibility timeout may run out under
  a handler, a rescue or a redrive may copy a message that still exists.
* **Crashes.** A worker may die between any two steps: between the row and its message,
  the routing decision and its review task, the provider call and its settlement.
* **Partial failure.** Some writes are best effort (`_record_failure`, `_note_failure`,
  `_touch_document`) and the handler goes on when they fail.
* **Locks in different orders.** Transactions of several statements lock the same rows in
  different orders and read before they lock: deadlocks and lost updates.
* **Streaming statistics.** A baseline is folded one document at a time by racing workers;
  what it comes to must not depend on how they interleaved.
* **Numbers that gate deployments.** An accuracy, a threshold or a verdict about time is
  worth what its denominators and windows are.
* **Bounds and liveness.** Deferrals, rescues, redrives and receives are counted, and
  only those counts stop a document from circulating for ever.

What makes each component correct is the list of properties in section 3. `PROJECT.json`
lists the hazards the properties are about, each at its line, and section 8 those that no
property covers.

## 2. Modules

| Module | What it is | Code |
|---|---|---|
| `Documents` | the statuses and their classifications | `models.py`, `healing.py`, `backpressure.py` |
| `Queues` | SQS: delivery, redrive policy, receipts | `queues.py`, `consumer.py`, SQS itself |
| `DocumentLifecycle` | abstract specification: which status may follow which | promise to clients |
| `Pipeline` | upload, consumers, handlers, healing, reviewer, time | `handlers.py`, `consumer.py`, `healing.py`, `main.py`, `review.py` |
| `Errors` | transient or permanent: the verdict on an exception | `resilience.py` |
| `Breaker` | breaker and bounded retry of one process | `resilience.py` |
| `Budget` | a tenant's counter, cap and usage events under racing workers | `budget.py`, `metering.py`, `extraction.py`, `handlers.py` |
| `RateLimit` | a tenant's token bucket | `backpressure.py` |
| `Intake` | uploads, drops, storage events and the API's sweep | `main.py`, `ingest.py`, `storage.py`, `auth.py` |
| `Review` | stores, resolutions and corrections as transactions with locks | `review.py`, `handlers.py`, `main.py` |
| `DriftStat` | what observing a document does to a drift row | `drift.py` |
| `Drift` | workers that fold documents into one row | `drift.py`, `handlers.py` |
| `Definition` | parsing a definition, evaluating its rules | `pipeline.py` |
| `Scoring` | signals, penalties, fitted confidence, routing | `confidence.py`, `confidence_model.py`, `routing.py` |
| `Corruption` | the labelled errors of the calibration study | `corruption.py` |
| `Extraction` | one document's calls, assessment and escalation | `extraction.py`, `handlers.py`, `evals/run.py` |
| `Study` | serving, gate and calibration as jobs of a definition | `evals/run.py`, `gate.py`, `calibrate.py` |
| `Experiment` | the staged format change and its report | `evals/drift_experiment.py` |
| `MC*` | instances and symmetry sets for TLC | |
| `PipelineProofs` | theorems about `Pipeline`: types and texts, messages, rescues, the refinement | |
| `BreakerProofs`, `BudgetProofs`, `IntakeProofs`, `ReviewProofs`, `DriftProofs` | theorems about the modules they are named after | |
| `StudyProofs` | theorems about the jobs of `Extraction`, `Study` and `Experiment` | |
| `SumTheorems` | lemmas on sums over finite sets, for `BudgetProofs`, `DriftProofs` and `StudyProofs` | |

How they compose:

* `Pipeline` extends `Documents` and `Queues` and implements `DocumentLifecycle`. It sees
  the breaker only as `DeferProviderDown` and the budget only as `PauseOnBudget`, both at
  arbitrary times, which covers whatever `Breaker` and `Budget` do.
* `Breaker` extends `Errors`; `Intake` extends `RateLimit`; `Drift` extends `DriftStat`.
* `Definition`, `Scoring`, `Corruption`, `Extraction`, `Study` and `Experiment` extend each
  other in this order, from pure operators to the jobs that use them. `Experiment`
  instantiates `DriftStat` as `Monitor`, on the row that all its arms share.

### How `Pipeline` corresponds to the code

A thread's `pc` is the step of the handler it is about to take; `job` is the delivery
`Consumer.run_once` holds. One action is one transaction or one external call:

| Step | Code | Next |
|---|---|---|
| `gate` | `admits` of `_defer_if_saturated`; `_defer_if_provider_down` | `begin`; `defer` at the ceiling, `hold` after a re-send |
| `defer` | the re-send of `_defer_if_saturated` | `touch` |
| `touch`, `hold` | `_touch_document`; after it, in `touch`, the count of the log line (675), which may raise | `ack`, or `note` from `touch` |
| `begin` | status guard under the row lock | `fetch` / `call`, or `ack` when passed |
| `fetch`, `ocr`, `put`, `commit`, `send` | the five calls of `handle_parse` | in order |
| `call` | text, metered model call, assessment | `approve`, `review`, `invalid`, `pause` |
| `approve`, `review` | the transaction of `_store_extraction` | `ack` / `task` |
| `task` | `ensure_review_task`, its own transaction | `ack` |
| `fail` | `_record_failure` of the two wrapped calls | `note` |
| `note` | `_note_failure` of `records_failure`; the message is left | idle |
| `ack` | `delete_message` after the handler returned | idle |

`Raise` takes a step to `fail` or `note`, exactly where the code has the two `except`
clauses. It spares `ack`, whose failure is the crash's, and the two touches:
`_touch_document` swallows what its own transaction raises, and what may raise after it is
in `TouchDocument`. `stale` replaces the clock: a document is stale when
`updated_at` is older than `heal_stale_after_seconds`; every write that changes the row
makes it fresh, because `updated_at` carries `onupdate=now()`. A sweep (`cand`) keeps the
statuses of its one query and deals with its candidates one at a time, with the
conditional claim of the code. A redrive is its two calls, copy and delete.

What the model leaves open on purpose: the answer of a model call (any routing
decision, an invalid answer, a spent budget), when a provider outage shows, and which
message SQS delivers. `DeleteByReceipt` lets an outlived receipt handle delete or not,
since SQS promises neither. `extracted` is in `DocumentStatus` but no handler writes it
(`_store_extraction` always gets a routing decision from `handle_extract`). A review
task is counted per document and not per extraction: each pass of a handler through
`_store_extraction` inserts its own extraction and therefore its own task.

### How `Errors`, `Breaker` and `Budget` correspond to the code

`Errors`: an exception is what the code asks it: whether it is one of the program's own
two classes, what its class's name, its AWS error code and its HTTP status say, and what it
was raised from. `Classify` follows the chain of causes as `classify` does, one verdict per
link, and what no rule knows is permanent.

`Breaker`: `circuit` is the property `CircuitBreaker.state`, computed in the code from
`opened_at` and the clock; the clock is one action, `CoolDown`. `tried` is the attempt
`retry_transient` is in, and an exception is retried or recorded by its verdict. `up` is
the provider; `wasted` is a history variable that counts the calls a dead provider was sent.

`Budget`: a worker's `pc` follows `_metered_extraction`: reserve (one conditional
UPDATE), the provider calls of `run_extraction` (the call and at most one correction,
each run repeated by `retry_transient`), settle or release, and the usage event in a
transaction of its own. No call is bound by its reservation: a reservation is any of
`WorstCases` and a call costs any of `Costs`. `Abandon` is an exception of one of
those transactions, or a crash: the worker forgets the call and the counter keeps what it holds. `billed` and
`overrun` are history variables. The money is in whole units; the code's Decimals are
only added, subtracted and compared.

### How `RateLimit` and `Intake` correspond to the code

`RateLimit`: a check is one conditional UPDATE that fills and spends. Postgres' `now()` is
the start of the transaction, so a request that waited for the row's lock fills by a time
that has passed and moves `refilled_at` back; the request remembers its `now`.

`Intake`: a request's `at` is the step of `upload_document` (key, rate, SELECT, put,
INSERT, send), a thread's the step of `ingest_object` for the first of the records it has
left. A file is its hash. Storage publishes what it saw, one record or several to an event,
MinIO's through the API's bridge; an event may be published again, and comes back whole
when its handler raises or its worker dies (`IngestFails`) until `MaxReceive`. `UploadFails`
is the same for a request: what it put and committed stays. `Sweep` is the API's sweep over
stranded `received` rows; its age is left open. `submitted`, `dropped` and `granted` are
history variables.

### How `Review` corresponds to the code

Each actor is a transaction of several statements, one action each: a handler storing an
extraction (INSERT, the drift observation, the routed status, commit, then the task in a
transaction of its own), a reviewer resolving, a client correcting. Row locks are state
(`locks`, with the share locks that a foreign key takes); a statement waits for the locks
it wants, and Postgres aborts one of a cycle (`Abort`), whose work is rolled back and, for a
handler, delivered again. Transactions are read committed: `resolve_task` reads the
extraction without a lock and writes its whole output later, which `overlapped` records.
An extraction keeps its `output` and the values of its `extracted_fields` rows apart
(`cells`), because the API serves both.

### How `DriftStat` and `Drift` correspond to the code

The arithmetic is exact and in integers: instead of a mean and Welford's `m2`, a signal has
its sum and `n * m2`, which are integers; standard deviations are compared squared. The
centroid keeps its size and how many profiles were folded into it, and a document brings
the distance it would be measured at. `Drift` is the row's transactions: the SELECT FOR
UPDATE that finds nothing to lock on a first document, the INSERT that the unique key lets
one worker win, the loser's failed transaction, the fold, which logs new drift while the
transaction is open (`announced` counts the lines), and the commit. A crash may come between
any two of them. `Deploy` changes `profile_dim` under a live baseline. `stored` is a history
variable: the documents whose extraction was committed, in order, with the values they
brought; `Measured` says again, from the order alone, which of them a text could be
compared for.

### How `Definition` to `Experiment` correspond to the code

`Definition` and `Scoring` are pure: `ParseRule` and its companions reject what
`parse_definition` rejects; rules are evaluated over records of canonical values, and what is known
of a rule is kept under its name, as in the code's dicts (`LastNamed`); penalties
are in 1/200 and similarities in 1/100; the weights are those of
`config/confidence_model_v2.json` rounded to 1/1000 of a logit, with their standardization
folded in, so the calibrated threshold is a logit too. `Corruption` makes the errors that
the study labels. `Extraction` is one document in hand (`work`), and a mode says who asks:
the worker (`serve`), the two passes of the eval gate (`frontier`, `routed`) or the study's
data set (`build`); the four differ in the first tier, in whether a doubted answer is
escalated, and in what a raise does. `Study` runs one job on one submitted definition:
`Define`, then serve, gate or calibrate, to a verdict. The fit is any of `Models`; choosing
the threshold (`OperatingPoint`) is the code's. `Experiment` adds the arms: `Launch`,
documents extracted under the routing policy and observed (`Watch`), and the report.
`Headline` is the numbers of its first sentence and which of the three sentences is chosen;
the detector's lag is printed in each of them, whatever it is.

## 3. Properties and runs

Twelve runs; the constants are in the `.cfg` files.

| Run | Checks | What it shows |
|---|---|---|
| `one_worker` | `TypeOK`, `InProgressHasMessage`, `FollowsLifecycle` | with crashes, exceptions, redeliveries, redrives and a backlog, one worker and the API's sweep implement `DocumentLifecycle`, and work in progress always has a message |
| `duplicates` | `TextBeforeExtract`, `NeedsReviewIsQueued` | with two extract threads, visibility timeouts that run out and provider outages: text is stored before anyone can ask for it, and duplicates alone do not lose review tasks |
| `ceiling` | `EveryDocumentSettles` | two documents that defer each other at an in-flight ceiling of one both finish, because deferrals are counted |
| `settles` | `EveryDocumentSettles` | every call may raise and every best-effort write be lost, as often as it likes, and each document still ends |
| `sweeps` | `RescueOnce`, `GiveUpHasReason` | two workers' sweeps racing rescue a document once, and give up on it only with a cause on the row, also where a deferral raises after its message is sent |
| `breaker` | `WastedBounded`, `MistakesDoNotOpen`, `ClosesAfterOutage` | at the deployed threshold (5) and attempts (3) an outage costs at most 15 calls, requests that are wrong never open the circuit, whatever they raise, and it closes after the outage |
| `budget_race` | `OverCapOnlyByOverrun`, `CounterCovers`, `OvercountIsVisible` | racing workers do not carry the counter past the cap; it covers all usage events and open reservations; what a lost worker left on it shows in `unsettled_calls` |
| `intake` | `DropsAreAccounted`, `RowsWereSubmitted`, `RepliesNameTheDocument`, `GrantBound`, `ReceivedIsSent` | uploads and drops of the same bytes by two tenants, with failing steps and repeated events: no drop is lost without a trace, no tenant's file becomes another's document, replies are true, and every received document is sent to parse; five requests racing for one bucket, some with a time older than its own, are granted no more than the burst and what the clock earned |
| `review` | `TypeOK`, `ResolvedOnce`, `CountedOnce`, `CorrectionsAreLabelled`, `AgreeUnlessOverlapped`, `EveryoneFinishes` | two handlers, two reviewers and a client on one document: a task is resolved once, a store the database aborted is not observed twice, every correction has its eval case, the two forms of an extraction agree unless two transactions overlapped, and deadlocks are only delays |
| `drift` | `BaselineIsTheFirstDocuments`, `DriftIsARun`, `FlagNamesTheFirst`, `RaceCostsOneDelivery` | whatever the workers' interleaving, the streamed baseline is that of the first documents computed in two passes; what cannot be compared after a change of `profile_dim` counts for nothing; a flag is raised by a run of breaching documents and names the first to complete one; each line logged beyond the first is of a transaction that was lost; losing the race for the row costs a message one delivery |
| `study` | `NoAnswerIsLost`, `ApprovedIsClean`, `ApprovedIsVouchedFor`, `GateCountsFailures`, `ThresholdHoldsOnHeldOut`, `ErrorsLeaveTheirMark`, `TimingClaimHolds`, `ArmsAreApart`, `JobsAdvance` | for every definition submitted and every answer of the model: what is served is the best answer paid for, what is approved passes the rules kept for it and is on the page, under the deployed weights and under any that let a failed rule decide, a pass of the gate counts failed documents, the deployed threshold is as precise as it says, injected errors are what their labels say, the numbers of the experiment's headline and the order it names are so, and every job ends |
| `review_task_lost` | `ReviewIsAskedFor` (violated) | finding 1: a document in review whose task nobody is on the way to make |

Each property of a passing run has a mutant of the code (an `X_` operator next to the
definition it changes) under which TLC finds it violated. The type invariants of `Breaker`,
`Budget` and `Intake`, and the breaker's `FieldsAgree`, are proved (section 6) and not run.

### Finding

1. **A review task can be lost for good** (`worker/handlers.py:872-876`). The routing
   decision commits before the task is made, and a worker may die in between. The
   comment there says the redelivery re-queues the task. The trace of `review_task_lost` goes on
   past the crash: the message comes back, the status guard skips it (344-352), it is deleted, and the
   document is left in `needs_review`, which the reaper treats as terminal, with no task,
   no message and no handler. `ReviewIsAskedFor` allows any of those (`Underway`), so that the
   crash alone does not violate it.

### Further disagreements met while modelling, which no run states

Pipeline, breaker and budget:

* A redrive is for documents that are already failed (`core/healing.py:365`, `317-319`,
  `402-403`): the failures that dead-letter a message while the provider or the store is
  out mark the row FAILED on the last delivery, so the redriven copy meets a status guard
  that skips it. The same step contradicts `docs/runbook.md:99-101`.
* A rejected probe wedges the breaker (`core/resilience.py:376` against `51` and
  `docs/runbook.md:49-50`): a permanent error records nothing, so a half-open probe that
  ends in one leaves the flag set and `allow()` refuses every later call.
  `ClosesAfterOutage` holds where no probe ends so.
* A paid answer is released at zero (`worker/handlers.py:544` against `541-543`): when the
  correcting call raises, the first call's tokens are lost with the locals of
  `run_extraction`. An escalating call that raises loses the first answer the same way
  (`410`), and the redelivery pays for it again.
* A reservation bounds nothing. It is said to be the most one call can cost
  (`core/pricing.py:84-92`, `worker/handlers.py:511-514`, `core/budget.py:24-25`), but its
  input is estimated at four characters to a token, without the schema that is sent along
  (`pricing.py:95-104`), and a run may make two calls on it. One call can pass the cap; what
  holds is `OverCapOnlyByOverrun`, with `overrun` for what settlements charged above what they held.
* An exception between `settle` and `record_usage` leaves the counter above the usage
  events with no unsettled call, against `tests/test_metering.py:261`; what holds is
  `CounterCovers`.
* A document that only waits in a long queue spends its rescues and is given up on, with
  no failure recorded, against `docs/runbook.md:39`. `GiveUpHasReason` holds without a
  backlog, which is how `sweeps` checks it.
* The status guard runs at the start of a handler only: of two handlers past it, the
  later one overwrites the recorded outcome, against `core/healing.py:138-141`. This is
  why `FollowsLifecycle` is checked with one extract thread.
* `dlq_max_redrives` (`core/config.py:127`) is read by nothing; `redrive_dlq` uses its
  own default of 2.

Intake and review:

* `Retry-After` is the wait truncated to whole seconds (`main.py:373`): a client that obeys
  it may be refused again.
* A drop that is overwritten under its key before its event is handled leaves no document;
  one overwritten after its row was made leaves a row whose hash is not the object's.
* `documents.tenant_id` has no foreign key, so a key dropped under an unknown tenant makes a
  document of a tenant that does not exist.
* A correction made while a resolution is under way is lost from the served output
  (`core/review.py:252`) and stays in `extracted_fields`; this is `overlapped`.
* `ensure_review_task` takes the global `review_sla_hours` (`core/review.py:66`), where
  `core/config.py` says the live value is the tenant's.
* A document's status may describe an older extraction than the one served, and resolving
  an older task approves a document whose latest extraction nobody vetted.
* `resolve_task` does not look whether the fields it is given are the definition's.

Drift and confidence:

* `_observe_drift_safely` swallows the loser's IntegrityError so that drift never fails a
  document, but the session it broke does: the store raises and the message comes back.
* New drift is logged in the transaction of the store, before the document's row is locked and
  the observation committed (`worker/handlers.py:779-790`, `860`): when that transaction is
  lost, the log has named a document that did not set the flag, and the next one logs again.
  `FlagNamesTheFirst` counts those lines against the crashes.
* The status `drifting` is never left. `config/drift.json` says rate signals ignore
  `min_std`; the code puts the floor under them too (`core/drift.py:167`).
* The fitted model approves dates that are one or two days off the page's, which the
  uncalibrated scoring penalises.
* `_parse_rule` checks the fields that a rule implicates and not its parameters, so a rule
  that lost one is accepted and raises in a worker (`confidence.py:340`,
  `pipeline.py:503`), against `pipeline.py:15-18`. `FieldSpec.required` is read by nothing,
  and scoring raises on a missing text or date.
* Of two rules with one name only the later is heard: `evaluate_rules` (`pipeline.py:404`),
  `residuals` and `rule_fields` keep what they find under the rule's name, and `_parse_rule`
  accepts a name twice. Of two product rules on a table, the rows that the later one finds
  replace the earlier one's (`pipeline.py:513`), against 495. A record that fails the earlier rule
  may be approved, which is why `ApprovedIsVouchedFor` speaks of the rules that are kept.
* The validators' cache is keyed without the tenant. "$" is found in "CA$".
  `pipeline_registry.py` says a definition normally comes from the tenant's row; the
  worker loads files.

Evaluation:

* In a row on its own, swapping quantity and unit price leaves the product, so the
  transposition of `corruption.py:147-150` does not break the rule its comment says.
* A shifted date is said to be one that no signal can see (`core/corruption.py:19-20`, `38`,
  `evals/calibrate.py:24-26`, `711-714`, `docs/calibration_results.md:89`,
  `tests/test_corruption.py:165`). The date corroboration, which is later, sees it wherever the page
  prints another date or states a term. What it cannot see is a date that lands on
  another one of a page without a term, and that there is none of those is what
  `core/date_corroboration.py:11-12` says. `ErrorsLeaveTheirMark` states the code's case.
* The docstring of `operating_point` (`calibrate.py:304-307`) still has the rule of maximum
  coverage; the code follows the comment at 289-298, as `ThresholdHoldsOnHeldOut` does.
* `make calibrate` writes a model without `calibrated_for`.
* `drift_experiment.py` observes a failed document with confidence None where the worker
  passes 0.0, and validation True where the worker says False.
* Its headline asserts a detection in every case: where no document was flagged it says that the
  detector "flagged the change None documents after the swap" (604-610) or that it "Detected None
  documents after the swap" and "came too late" (619-623), and the text below "None documents in"
  (695). A flag raised before the swap, whose lag is zero or less, is printed as so many
  documents after it, and as having preceded the damage (611-617). `TimingClaimHolds` is about the
  numbers, which are those of the stream, and the order of flag and breach.
* A window that straddles the swap counts as damage, against its comment at 274-275.
  `floor_held_before_swap` (294-296) is never printed.
* Its report fails on a mean that is None (715, 733), and a run that fails there leaves
  the drift row behind, as the DELETE at 573 is not reached.
* `gate.py`'s check of type "hole" cannot be reached from `main`.

## 4. Bounds, and why they are enough

* **Documents** of the pipeline: one, and two where documents affect each other, which they
  do only through the in-flight ceiling (`ceiling`, and `sweeps`, for deferrals that raise).
* **Message slots** (`Msgs`): the pool bounds how many messages exist at once, and a step
  that sends waits for a free slot. Two slots give a document a message and a duplicate,
  or a message and its redriven copy; `ceiling` has three for two documents. In the
  liveness runs the pool must not be what blocks a document: `Purge`, deliveries and
  dead-lettering free the slots.
* **Counters**: `MaxReceive`, `MaxRedrive`, `MaxDefer`, `MaxReap` are the code's own
  limits, given small values (0 to 2) so that each limit is reached and passed.
  `reapCount` is kept at `MaxReap + 1`, above which counts behave alike.
  `MaxTasks` bounds the open review tasks of one document, `MaxGrants` the reservations
  a run of `Budget` grants, `MaxCap` what an operator raises the cap to.
* **Breaker**: one calling thread, as a worker has, the deployed threshold 5 and attempts 3,
  and ten exceptions: named, with a status only, or with neither; one whose AWS code says
  throttling where its status says a bad request; and two with a cause, of which one is a
  connection error over a request that was refused.
* **Intake**: two kinds of traffic, which `Traffic`, a state constraint, keeps apart because their
  product is too large. In one, two requests, one ingest thread, one drop, one storage event
  and two receives of it, two tenants, two files of which one is a PDF, two slugs: an upload
  racing an upload and either racing a drop of the same bytes, for one tenant and across
  tenants, with a redelivery. In the other, five requests that hand in nothing storable
  race for a bucket of three that gains one at a tick: a request may spend with a time that
  has passed, and the next one must not be credited that time again. The constraint
  cuts off no step of `Sweep`, so that `ReceivedIsSent` is not weakened by it.
* **Review**: two handlers, two reviewers, one client, two fields, two receives. Every pair
  of the three kinds of transaction overlaps, both lock cycles occur, and a handler can be
  aborted and come back.
* **Drift**: a baseline of three, runs of two, six documents, two workers and one mishap (a
  deployment or a crash): the baseline closes, one document breaks a run and two make one.
* **Study**: eleven configs, of which some are rejected; sixteen answers for one page, one
  for each signal; a corpus of nine documents, five of them scanned; two models a fit may
  come to. One page prints a date that another may be shifted onto, and no term, so that a
  shift is seen or not. The arms have five documents and two after the swap, and two and one, with a
  baseline of three, a window of two and a floor of 95: every sentence of the headline comes with
  every lag it can have (none, before the swap, after it). A false positive in the control
  arm is not reached.
* **Faults** are switched by Boolean constants. A run switches on those its question is
  about: a crash that loses a review task would hide what duplicates can do, so
  `duplicates` has none, and the proofs cover all of them together.
* **Deadlock** is not checked where the system really stops because its requests or
  documents are used up: `budget_race`, `intake`, `review`, `drift`. `study` checks it: a
  job stops only at its end.
* **Symmetry** over slots, callers or workers is used in runs of invariants and of
  action properties only.

## 5. Fairness

`Pipeline`: a thread that holds a delivery takes its next step; SQS lets visibility
timeouts and retention run out and delivers a message that stays visible (strongly fair:
another message may be delivered first any number of times, not for ever); a row nobody
writes becomes stale; sweeps recur (`_healing_loop` and the API's thread are timers) and
deal with each candidate they keep finding. Nothing is assumed of `Raise`, of a provider
outage or of a lost write, which may happen each time. Crashes are off in the two
liveness runs: a worker that dies before every step makes no progress, and the code
promises none.

`Breaker`: the cooldown runs out, work keeps arriving, a call returns; and a provider
that is up does not reject every call for ever (`SF Answered`), without which "the
circuit closes" would be false for reasons the breaker has no part in.

`Intake`: the API's sweep recurs (`_reaper_loop` is a timer), and nothing else has to:
requests and threads may stop anywhere. `Review`: a transaction that can go on does, and
Postgres notices a deadlock; no actor goes round in a loop, so weak fairness of `Progress`
as a whole is fairness to each. `Study` assumes none: `JobsAdvance` says that every step
lessens a natural number, and the deadlock check that only an ended job stops.

## 6. What is proved

TLAPS proves the following for every number of documents, slots, threads, sweepers, callers,
workers, requests, reviewers and tenants and every value of the bounds and fault switches
that meets the modules' named assumptions. Where a theorem has hypotheses of its own they are
given with it; they are conditions on the constants, and the run that checks the property meets
them. Almost none of the properties is inductive, and each entry names what had to be added.

**Pipeline** (`PipelineProofs`)

* `Typing`: `Spec => []TypeOK`. `TypeOK` is inductive by itself. It splits into queues,
  threads and rows (`TypeParts`), and each step disturbs one or two of them.
* `TextFirst`: `Spec => []TextBeforeExtract`. Statuses and messages are made from what
  threads, sweeps and reviewers remember. `TextInv` says the same of everything that can
  later become a status or an extract message: the threads past the guard of extraction or
  past `put` (`ThreadText`), the candidates of every sweep (`CandText`), and open review tasks
  (`TaskText`).
* `WorkIsNeverLost`: `Spec => []InProgressHasMessage` if `~LateDelivery`, `~DbErrors` and
  `~Retention`. `MessageInv` adds that a thread's delivery is in flight and nobody else's
  (`Owns`), that a document past the status guard has a message that stays (`InHand`), and that a
  parse thread about to send has moved its document on (`SentOn`). Crashes, exceptions, deferrals,
  duplicates, rescues and redrives are all allowed.
* `DuplicatesKeepReviews`: `Spec => []NeedsReviewIsQueued` if `~Crashes` and `~StageErrors`.
  Inductive given the types: what remains are two threads that store one after the other,
  and the reviewer between them. Finding 1 is what the hypotheses exclude.
* `OneRescueAtATime`: `Spec => RescueOnce` if `~Backlog`, `~LateDelivery`, `~Crashes`, no
  redrives and no API sweeper: the ways a message goes out without a claim of its row.
  `RescueInv` adds `StaleIdle`, that nothing is on its way for a stale document, and `RowsInv`, that
  a candidate which is still stale is still what its scan saw.
* `OneWorkerFollowsLifecycle`: `Spec => FollowsLifecycle` for one worker (`OneWorker`), any
  sweepers and every failure. Each step of the pipeline is a step of `DocumentLifecycle` or a
  stutter. `WorkInv` says that a document belongs to the one thread that works on it, except that
  the reaper may give it up, and that an open task is the only one of a document in review.
* `NobodyIsGivenUpUnheard`: `Spec => GiveUpHasReason` if `~Backlog`, `~LateDelivery`,
  `~Crashes`, `~DbErrors` and `MaxReap # 0`. `TraceInv` says that a document which was
  rescued and whose row tells of no failure is on its way, so that it does not age.

With any one hypothesis of the last five theorems dropped TLC finds a counterexample, so none is there
for the proof's convenience. `MaxReap = 0` would be a fleet that gives a document up at its
first sweep; the code's limit is 5 (`core/config.py:123`).

**Breaker** (`BreakerProofs`)

* `BreakerFieldsAgree`: `Spec => []FieldsAgree`, in two halves, `Counted` (arithmetic) and
  `Probing` (propositional). `BreakerTyping`: `Spec => []TypeOK`, whose content is that
  a retried call stays within its attempts. Neither is run: with one caller, as deployed, nothing
  could break the first, and with several it allows for what section 8 says of them.
* `OutageCostsLittle`: `Spec => []WastedBounded` if `OneCaller` (a worker's extract thread) and
  what an outage raises is taken for transient. `WastedInv`: each failure on the count stands
  for at most `Attempts` wasted calls, and the rest are the current call's.
* `OnlyOutagesOpen`: `Spec => []MistakesDoNotOpen` if `OneCaller`, what a mistaken request
  raises is taken for permanent, and the threshold is more than one or nobody resets. `BlamedInv`:
  a caller about to record a failure has wasted a call, unless a reset came between. The two
  conditions on verdicts are about `Classify` and the exceptions given; that it meets them for
  those of the run is what `breaker` adds, where the mutants of both properties are mutants of
  the classification.

**Budget** (`BudgetProofs`)

* `RacingWorkersKeepTheCap`: `Spec => []OverCapOnlyByOverrun` from `BudgetInv`, which adds that
  amounts are natural numbers, and assumes nothing of what a call costs;
  `SettleArithmetic` is the lemma about the two `GREATEST` expressions of `_SETTLE`.
  `BudgetTyping`: `Spec => []TypeOK`.
* `TheCounterCovers` and `LostCallsAreVisible`: `Spec => []CounterCovers` and
  `Spec => []OvercountIsVisible`. They sum over the workers. `LedgerInv` keeps the cost of
  an idle worker zero and counts the calls that are nobody's any more (`Visible`): unsettled
  calls are no fewer than the running reservations, and more where the counter holds more
  than the bills and they explain.

**Intake** (`IntakeProofs`)

* `GrantsAreEarned`: `Spec => []GrantBound`. What a tenant was granted is bounded by the
  clock; what it may still be granted depends on `refilled_at`, which moves back. `Earned` bounds
  tokens and grants together by the burst and what was earned up to `refilled_at`.
* `IntakeTyping`: `Spec => []TypeOK`.
* `RowsComeFromSubmissions`: `Spec => []RowsWereSubmitted`. `TableInv` says the same of
  what becomes a row later: objects of the dropbox, records not yet published, events on the
  queue, and what requests and threads hold at each of their steps.
* `RepliesAreTrue`: `Spec => []RepliesNameTheDocument`. `TableInv` follows each request to
  its reply, with the unique key of the rows and at most one creator of each.
* `NoDropIsLost`: `Spec => []DropsAreAccounted`. `DropInv`: what a dropped key holds has its
  row, or an event that names the key is unpublished, on the queue or in the hands of a
  thread that has not passed it. An overwrite changes what is owed and publishes its own event.

**Review** (`ReviewProofs`), all from one inductive invariant, `IInv`: the locks granted are
compatible, each transaction holds the locks of the statements it has done, and what it read
under a lock is still so.

* `ReviewTyping` (`TypeOK`), `TasksResolveOnce` (`ResolvedOnce`), `StoredIsCounted`
  (`CountedOnce`), `CorrectedIsLabelled` (`CorrectionsAreLabelled`) and `OutputIsTheFields`
  (`AgreeUnlessOverlapped`), each as `Spec => []...`, for any handlers, reviewers, clients and
  fields and any aborts.

**Drift** (`DriftProofs`)

* `RaceIsCheap`: `Spec => []RaceCostsOneDelivery` from `RowInv`: only the lock's holder
  folds, so the row it read is the row; a message's deliveries are paid for by crashes and,
  once, by the race.
* `BaselineIsExact`: `Spec => []BaselineIsTheFirstDocuments`. `StatsInv` says of every signal
  that its statistics are sums over the set of positions that carry it, in the form Welford's
  step keeps: `spread = n * (sum of squares) - sum * sum`; `MeasuredInv` that a document's text was
  compared exactly if it was read at the size of the centroid's last document.
  `WelfordIsExact` shows that the division in the step leaves no remainder,
  and `ScaledSquares` that the form is the two-pass one.
* `OnlyARunIsDrift` and `TheFirstIsNamed`: `Spec => []DriftIsARun` and
  `Spec => []FlagNamesTheFirst` from `DriftInv`: the counter of a signal is the length of its
  current run of breaches over the stored documents (`RunGrows`), and judging uses a baseline that
  no longer changes (`FoldKeepsDrift`). `AnnounceInv` counts the lines: one for the flag or for
  the fold that is about to commit it, and the rest are of crashes.

**Studies** (`StudyProofs`), of `ExperimentSpec`, which has the steps of `Study` and
`Extraction` too, for any definitions, documents, answers, labels, floors, models, thresholds
and arms. `JobInv` comes first: where a document in hand is between its calls and how many
outcomes it can have there, what each job has left, and what an ended job has still in hand.

* `NoAnswerIsEverLost`: `Spec => []NoAnswerIsLost`. `KeptInv` says that what was stored is of the
  answer that was kept; a document has at most two outcomes, and keeping is taking the last
  usable of the two (`KeptIsTheLastUsable`).
* `EveryJobAdvances`: `Spec => JobsAdvance /\ [](Remaining \in Nat)`. The measure is split into the
  phases, documents, streams and calls that are left (`Totals`); a step within a job lessens one
  of the last three (`SameJob`), a step to another job the first (`NextJob`).
* `TheGateCountsFailures`: `Spec => []GateCountsFailures`. `GateInv`: a pass has graded, has in hand
  and has left the golden documents together (`Covers`), and what it graded has every scored field
  or needs reading. `WholePassClears` then turns the floor over cells into one over the
  documents that can be read.
* `TheThresholdHolds`: `Spec => []ThresholdHoldsOnHeldOut`. A finite set has a best member in any
  order that compares its members (`FiniteBest`); that precision, coverage and threshold make such an
  order of the sweep's points is arithmetic on fractions (`Fractions`, `BeatsOrders`), and moving
  the threshold of the fitted model does not move its scores (`SameScores`).
* `TheArmsAreApart`: `Spec => []ArmsAreApart`. `ArmInv`: a run of breaches is as long as the
  documents observed after the baseline allow (`RunsAfterBaseline`), and the row has observed no
  more than the arm has had, because the row is reset between arms.
* `TheTimingIsSo`: `ExperimentSpec => []TimingClaimHolds` if every arm has redesigned documents,
  without which there is no swap to time. `BelowFloor` looks at the last `Window` approved
  documents at each step and `Fell` at any stretch with that many: the two are the same set
  (`StretchIsRecent`), so that the first breach is the first stretch that fell (`FellIs`), and the
  sentences of `Headline` compare positions of one order; a lag is the first flagged document, or
  none where nothing was. `PhaseInv` keeps the redesigned
  documents of an arm before or behind it, so that a finished arm has a swap.
* `WhatIsApprovedIsVouchedFor`: `ExperimentSpec => []ApprovedIsVouchedFor`. Approval is a sum of
  weighted features that reaches a threshold, and the property is about the parts. The features
  are natural numbers (`FeaturesCount`: a residual is an integer, whatever rows it sums), so that
  with weights that are not negative each one alone bounds the sum (`LogitBelow`); a flag that
  outweighs the bias is then not raised (`Unflagged`), and a failed rule raises one, because a rule
  that was accepted implicates a scored field (`FailureCounts`). `ServingInv` and `ApprovedInv`
  carry it from the decision to the stored row, through escalation: what is stored was scored
  under the definition that was parsed, with the signals of its own record. `Decisive` is a
  condition of the property and not of the theorem; the deployed weights meet it.

**Sums** (`SumTheorems`): `SumOver` is the sum of a function over a finite set, shown to exist and
to be unique by minimal counterexample, because the library's induction rules cannot be
used; then what removing or changing an element and splitting the function do to it.

The assumptions are those of the modules: bounds are natural numbers, thread sets are disjoint,
workers and handlers are finitely many, `NoMsg`, `NoJob` and `None` are not values of what they
stand beside, and documents have the shapes drift observes. `AnswersAssumption` says of
`Study` what a caller of its operators may rely on: values are canonical for their fields' kinds, as
`_normalize_by_kind` leaves them, a page's similarities are hundredths of one and its dates
numbers. TLC evaluates them in every run.

## 7. What is only model-checked

Liveness (`EveryDocumentSettles`, `ClosesAfterOutage`, `ReceivedIsSent`, `EveryoneFinishes`) is out
of the prover's reach, and nothing is proved under `FairSpec`.

`ApprovedIsClean` and `ErrorsLeaveTheirMark` are about the definitions, pages and answers of the
instance: whether a rule that was submitted catches an error that was injected is a question
of those values, which only TLC enumerates. `ApprovedIsVouchedFor` is what can be said of every
definition and page; that it comes to a clean invoice is `ApprovedIsClean`.

What a recursive definition computes for every input cannot be proved, as it takes the induction
rules that none of the provers can instantiate. Sums over sets are the exception above: that
they exist, are integers, and what changing an element does to them.

## 8. What is not modelled

* **Infrastructure and synthetic data**: deployment descriptions, the check of a local
  stack and the generators of sample documents.
* **Reading endpoints and rollups** of API, metering and review; they change nothing.
* **Fleet scaling and replacement**: scaling to zero on an empty queue, the heartbeat and
  the platform's replacement of a worker are outside the program.
* **Text**: normalisation of printed values, JSON Schema, prompts, the reading of a PDF,
  similarity of strings. A page says what can be traced to it, and values are canonical.
* **Durations**: only the order of timeouts is visible, and so neither the length of
  deferral delays nor of backoff is. `RateLimit` and the breaker's cooldown have ticks.
* **Plots and tables** of the evaluation, and the numeric fit of a confidence model.
* **Queue creation**, roles and key issuing, which are administration.

Hazards of the code that no property covers, with those that section 3 has under the redrive and
the rejected probe:

* The cost of a run whose second call raises is given back, so the counter is below what the
  provider billed (`worker/handlers.py:544`), and no record the code keeps would show it.
* A paused document is polled with an unclaimed send, so every worker's sweep sends its own
  message (`core/healing.py:237`); what a duplicate does is covered, their number is not.
* The API's sweep may not send to extract, so a document stranded at `parsed` after the
  fleet scaled to zero waits for the next upload (`main.py:70`).
* The deferral delay is the whole cooldown and not what remains of it
  (`worker/handlers.py:710`).
* `sync_tenant_status` writes a status computed from an older settlement
  (`core/budget.py:156`); operators read it, the code does not.
* An event's record whose object is gone raises, and those behind it share its fate
  (`worker/handlers.py:242`): after `MaxReceive` the event is a dead letter, which
  `DropsAreAccounted` counts as accounted for.
* A consumer thread that dies leaves the process and its healer running until the heartbeat
  is missed (`worker/main.py:93`).

Limits of the modules: in `Pipeline` row locks are held for one action and are not state, so
lock-order deadlocks appear there only as an exception (`Review` has them); `handle_ingest`
is a thread of `Intake` and not of `Pipeline`, where uploads stand for both entrances; a
review task of `Pipeline` is counted per document, as each pass of a handler through
`_store_extraction` inserts its own extraction and its own task. A breaker with several
calling threads can take a stale failure for its probe's; a worker has one, as deployed, and no
property says anything of several but `FieldsAgree`, which allows it. The logarithm of a residual
is taken to be its argument, which bounds it.
