# A TLA+ model of the webhook automation engine

The engine receives webhooks over HTTP, stores each as a `WebhookEvent`, queues
a BullMQ job for it, and lets workers match the tenant's rules against the event
and run their actions, with one `JobRun` row per rule that fired. Sender, API
process, MongoDB, Redis, workers and the targets of the actions fail
independently, and no operation spans two of them. This directory holds a model
of that, checked with TLC on small instances and, for the results listed below,
proved with TLAPS for all values of the constants.

Source lines are given relative to `backend/src/`, those of the dashboard to
`frontend/src/`.

## Inventory

| Component | State | Operations | Talks to |
|---|---|---|---|
| Ingestion endpoint (`webhooks/webhooks.controller.ts`) | none | `receive`: resolve tenant, verify signature, parse, determine event type, ingest, answer | tenants, `WebhooksService` |
| `WebhooksService`, `WebhookEvent` | events: tenant, source, dedupe key, payload, status; unique index on (tenant, source, dedupe key) | `verifySignature`, `ingest` (insert, then enqueue) | MongoDB, queue |
| Queue (BullMQ, external) | jobs with attempts, lock, stalled count | add, take, complete, fail, recover a stalled job | workers |
| Worker (`queue/webhook.processor.ts`) | local: the job, the rules it read, the row it loaded, position in the loop | `processEvent`, `processReplay`, `runActionsForJobRun` | all of the others |
| `JobsService`, `JobRun` | rows: event, rule, status, `actionResults`, version | `upsertForRuleMatch`, `replay` | MongoDB, queue |
| `RulesService`, `Rule` | rules: trigger, conditions, actions, enabled | create, update, remove, `findMatchingTriggers` | MongoDB |
| Rule engine (`rules/rule-engine.service.ts`) | none | `matches` | worker |
| Actions (`queue/actions/`) | CRM records; outside: notifications sent | `execute` of `webhook_notify`, `crm_update` | network, MongoDB |
| Tenants, `TenantGuard` | tenants: slug, secrets, active | `findBySlug`, guard | controllers |
| Dashboard (`frontend/`) | tenant, tab, rows of the mounted table, timer, calls on their way | select, poll, Replay, Enabled/Disabled, Delete | API |
| Sample sender (`sample-data/`) | none | four deliveries, one of them sent twice | ingestion endpoint |

**How they interact.** `receive` inserts an event and then adds a job whose id is
the event's id. A worker takes the job, marks the event, reads the rules, and for
each rule that matches finds or creates the row, runs its outstanding actions and
saves the row. If an action failed, the job is thrown back and BullMQ retries it
with backoff. The replay endpoint loads a row, resets what did not succeed, saves
it and adds a job of its own for it. The event's job, any number of replay
jobs, the replay endpoint and the rule endpoints may all be under way at once.

**What is hard.** Every `await` is a place where others run or the process dies:
between `findOne` and `create`; between an action's effect and the save that
records it; between loading a row and saving it; between a save and the `add` that
should follow; between the insert of an event and its job. A worker that does
not renew its lock in time goes on working beside its successor. A target may do
what it was asked and the reply is lost. Rules change between attempts.

**What makes each part correct.**

- Ingestion: only verified webhooks are stored; a 200 is backed by an event; one
  delivery gives one job; a persistent sender is acknowledged.
- Queue and worker: every job settles; an event that meets fewer failures than it
  has attempts is delivered; a job does not finish normally while a rule failed.
- Rows: one per firing; a success recorded is one that happened, and is never
  taken back; status agrees with results; a queued row is pursued; its
  list of actions never changes.
- Actions: repeated only as often as a fault hid or lost a success; of all deliveries of
  a webhook one acts; a rule that is off fires no more once the calls that found it are
  over.
- Rule engine: whether an event matches does not depend on the order of conditions;
  a rule that was never patched makes evaluation throw only on a payload that has
  something without a text; a rule is evaluated as it was written.
- Tenants and dashboard: what a click does, it does to the tenant it was clicked under;
  a table left alone shows what the API has; a tab does not repeat its own replay.

`PROJECT.json` lists the hazards line by line, with the properties that cover them.

## Modules

| Module | Models |
|---|---|
| `EngineTypes` | identities, schema enumerations, and the budget `Limit`/`TotalLimit` for what the environment does |
| `BullQueue` | the queue, as far as the engine's options select its behaviour |
| `RulesService` | rules, their endpoints and the worker's query |
| `JobsService` | `JobRun` rows, what mongoose's `save` guards, `upsertForRuleMatch`, `replay` |
| `WebhookProcessor` | the workers, composed with the three above; the properties of the processing side |
| `ActionLedger` | what the engine promises about actions, without workers, rows or jobs: the abstract specification that `WebhookProcessor` implements |
| `WebhookIngest` | ingestion with senders that retry |
| `Pipeline` | ingestion and workers composed over one queue; an event's job exists once its handler added it |
| `RuleEngine` | evaluation of conditions over JSON values, and what seed script, POST and PATCH store of them |
| `Dashboard` | one browser tab, the API behind the tenant guard, the answers between them |
| `MCWorker`, `MCIngest`, `MCPipeline`, `MCRuleEngine`, `MCDashboard` | their instances for TLC |
| `WebhookProcessorProofs`, `FiringProofs`, `LedgerProofs`, `AttemptProofs` | proofs about `WebhookProcessor`, each resting on the one before |
| `IngestProofs`, `PipelineProofs` | proofs about `WebhookIngest` and the composition |
| `RuleEngineProofs`, `DashboardProofs` | proofs about those modules |

**Correspondence.** An action is the code between two awaits of one handler. In
`WebhookProcessor` a worker's `pc` names where its `process()` call stands:

| `pc` | next action | code |
|---|---|---|
| `idle` | `TakeJob` | `process`, dispatch on the kind of job |
| `started` | `MarkProcessing` | load the event, status PROCESSING |
| `rules` | `FindRules` | `findMatchingTriggers`, and the `continue` of rules whose conditions fail |
| `loop` | `FindRun`, `RuleEvalThrows`, `MarkProcessed` | `matches`, `findOne` of the upsert; end of loop, status PROCESSED |
| `create` | `CreateRun` | `create` of the upsert |
| `load`, `replayRules` | `LoadRun`, `FindReplayRule` | `processReplay` |
| `run` | `RunAction`, then `SaveRun` or `SaveConflict` | `runActionsForJobRun` |
| `finish` | `Finish` | BullMQ: complete, or fail the attempt |

`doc` is the row in memory: the row as it was loaded, with the outcomes recorded
since, so `doc.ver` is the version its save will ask for and `doc.status` the
status it was loaded with. A failing loop body becomes `Throw`. The number of times
an action at a position took effect, for an event and a rule, is counted in
`effects`, a history variable that no action reads.

In `WebhookIngest` a request's `http` names where its handler stands: checks, insert,
enqueue, or the answer it gave. `Pipeline` has both at once: its steps are those of the two parts,
the job set of ingestion is the set of jobs the queue ever had (`Added`), and the one joint step
is `AddJob`, which the handler takes and the worker's queue feels.

In `RuleEngine` a value is its kind, the text `String()` and the number `Number()` make
of it and what is inside it; numbers are integers, since only their order counts. An object that has a `toString` of
its own, which in JSON is no function, has no text, nor has an array that holds one:
`String()` and `Number()` throw on them (`rule-engine.service.ts:25,28`). A condition list is written once by `Seed` or `Post` and
any number of times by `Patch`. `asked` is what the tenant wrote, `stored` what the
database got: the `ValidationPipe` with `whitelist: true` (`main.ts:13-19`) removes
`value`, which has no decorator (`rules/dto/create-rule.dto.ts:19`), and lets a PATCH
through as it is, its type being no class at run time.

In `Dashboard` a call has three moments, `NewCall`, `Serve` and `Answer` (or `Fail`), and
calls on their way are served and answered in any order. `Select` is the effect of the
mounted table: its load, and the timer it starts anew. The calls of a table that is
left stay on their way, and their answers are `Ignored`. The engine and other users (`Stranger`:
replays and edits) appear only as changes of what the API serves; `ours` are the jobs that
wait because this tab replayed them.

**Mongoose** (8.24.1). `actionResults` is an array without element schema that the
code replaces or marks as modified: such a save asks for the version it loaded
(`__v`), counts it up, and is refused with a `VersionError` otherwise. A save of
scalar fields alone is not guarded, and a field set back to its loaded value is not
written. The replay endpoint assigns an array; where the reset changes nothing,
because every action succeeded or there is none, mongoose sees an equal value and writes only
`status`, unguarded. This is the
difference between `SaveArray` and `SaveStatus`.

**BullMQ** (5.79.2). `Attempts` are the code's options (5 and 3, smaller in the
instances). `MaxStalledCount` is the default of 1. A worker whose lock is gone is not
listened to when it finishes. Backoff only delays: delayed jobs count as waiting and
no order among waiting jobs is assumed.

**Abstractions.** In the worker, a rule's trigger and conditions are its reading of each event:
another trigger, conditions that fail, that hold, or whose evaluation throws. A
config is the action type whose required field it has. A webhook is a record of what
the endpoint looks at. Texts, dates, attempt counters and outputs are left out,
and so are the branches for an event or row that does not exist, since no code
deletes either. `Pipeline` leaves out replays and rule edits, which `worker_replay` and
`rule_edits` cover for jobs that are queued already.

## What the runs show

The environment's steps are bounded by kind (`Limit`) and in total
(`TotalLimit`), so a run covers every combination and order of that many faults.

| Run | Instance | Shows |
|---|---|---|
| `worker_faults` | 1 event, 2 rules (2 and 1 actions), 2 workers, up to 3 faults of a crash, a lost lock, a lost reply, a refusal; 3 attempts | `OneRunPerFiring`, `CleanFinish`, `ProcessedMeansEvaluated`, `StatusAgreesWithSlots`, `RepeatsNeedFaults`, `KeepsLedger`, `JobsSettle`, `EventuallyDelivered` |
| `worker_replay` | 1 event, 1 rule, 2 replays, 2 workers, up to 2 faults of a crash, a lost lock, a refusal | `SuccessIsReal`, `StatusAgreesWithSlots`, `CleanFinish`, `QueuedIsPursued`, `SuccessIsFinal` |
| `rule_edits` | a rule and one yet to be created, 1 replay, 2 of: edits, a crash, a database error, a refusal; all readings; action lists of two actions, with one that has no class, and without any | `TypeOK`, `CleanFinish`, `OneRunPerFiring`, `PlanIsFixed`, `OffRulesFireNoMore`, `KeepsLedger` |
| `ingest_safety` | 7 webhooks, 2 tenants, 2 sources, one sent twice, 1 fault | `IngestTypeOK`, `OnlyVerifiedStored`, `AckIsBacked`, `OneJobPerDelivery`, `StrandedNeedsFault` |
| `pipeline` | the sample sender's order, sent twice, and its forgery; 1 rule, 2 workers, 1 fault of a handler, 2 of a crash, a database error, a refusal at the workers; 2 attempts | `OneRunPerWebhook`, `ActsOncePerWebhook`, `OnlyVerifiedRun`, `ImplementsIngest`, `SenderIsAcked`, `ReceivedIsDelivered`, `AckedIsDelivered` |
| `rule_engine` | every list of up to 2 of 14 conditions, written every way, on 14 payloads | `RuleTypeOK`, `UnpatchedThrowsOnNoText`, `EqualExcludesGreater`, `MatchIsOrderFree` |
| `dashboard` | 2 tenants, a job and a rule, 2 calls on their way, 2 clicks, 1 failure or click of somebody else | `TypeOK`, `ReplaysAreNotRepeated`, `QuietRulesAreTrue`, `ClicksStayHome`, `TableCatchesUp` |

Two of these properties are refinements. `KeepsLedger` is `ActionLedger!Spec` under the
mapping `taken` = `effects`, `done` = the places whose slot a row records as succeeded,
`contested` = the places of firings that were replayed, or all of them once a lock was
lost: the abstract ledger lets an action on record be taken again only where it is
contested. `ImplementsIngest` is the specification of `WebhookIngest` with its set of
jobs read off the worker's queue.

**Why these bounds.** Two workers are enough for the races: a third would have to hold
the same job, which takes a second lost lock. Two rules are what it takes for one
to fail beside another and for the loop to be left between them; two actions, for a
slot to succeed beside one that fails. A worker of the model is one call of `process()`; a
process that dies with two calls in it is two crashes in a row. Two replays race each other and the event's
job. Three faults let a success be lost, the retry be disturbed, and the attempt after
that as well. Rows of different events never meet in the code, so one event stands for
each. Database errors are left to `rule_edits` and `pipeline`: to the worker they are what a
refused save is, but at `findOne` and `create`. Two rules share the attempts of one job, and a lost
lock may cost an attempt for each of them: the worker that lost it goes on through the
rules, and each row it saves may refuse a save of the worker that took over; hence
`Cardinality(Rules)` in `PatienceExhausted`, whose two sides are both reached (three attempts,
and faults worth up to four). For ingestion, two overlapping attempts of a
delivery meet at the index in every way more could; the other five webhooks are
there to be confused with it: same id at another tenant and at another source,
two bodies without id, a wrong signature, no event type. The composition needs one delivery that
is repeated while workers run it, one that must not get that far, and a fault on
either side of the queue; its worker faults exceed what two attempts survive, so both
outcomes of `ReceivedIsDelivered` occur. Two conditions are the first list in which order
matters; the 14 conditions and 14 payloads pair values whose texts and numbers disagree (`500`
and `"500.00"`, `true` and `"true"`, `null`, arrays, absent fields, a field that is no string), and
an object and an array that have no text. Two calls on
their way can overtake each other, and two clicks can hit one row from two pictures of it; a
list is taken of one document per table because rows do not affect each other. The table of
events is polled like that of jobs, by the same lines, and is empty in the instance. One click of
another user is enough to change what a row on the screen says behind this tab's back.
An edit may leave a rule with no action at all, since neither the DTO nor the schema asks
for one: its row completes with no slots and a later replay lays out the actions of
the day, which is why `CleanFinish` speaks of matched rules that have actions.

Five runs find what a comment or the README says and the code does not do
(`findings` in `PROJECT.json`):

- `replay_repeats` (`SucceededIsSkipped`): a replay that loads a row before the
  event's job saves a success runs the succeeded action again. Its own save is then
  refused, but the notification has been sent.
- `lock_loss_rows` (`OneRowSeen`): find-then-create without a unique index gives two
  rows when the job's lock lapses.
- `ingest_stranded` (`AckedIsQueued`): after a fault between insert and enqueue, the
  sender's retry is answered "duplicate" and no sweep re-enqueues the event.
- `deleted_rule_replay` (`RecordedIsReplayed`): a replay of a row whose rule was deleted
  falls back to the action types recorded, but with the config `{}`, which both actions
  refuse, so that none of them can be executed.
- `created_rules` (`AskedIsEvaluated`): a rule created over HTTP is stored without the
  values of its conditions and compares payloads with the text `undefined`.

The passing runs state the same promises with the condition under which they do hold
(`OneRunPerFiring`, `RepeatsNeedFaults`, `AckedIsDelivered`, ...). That a crash before
the save makes the retry repeat actions is stated by `RepeatsNeedFaults` and by the
ledger, in which a place not on record may be taken any number of times.

**Fairness.** `FairSpec` of `WebhookProcessor` assumes weak fairness of each worker's
steps, since Node resumes every call whose awaited promise settles, and execution of an
action ends by itself (the notification is aborted after five seconds); of the
stalled-job check, which BullMQ runs on a timer; and of a replay request once it was
loaded. Nothing is assumed of crashes, lost locks, errors, refusals, clicks and edits.
`FairSpec` of `WebhookIngest` assumes that a running handler goes on, and that a sender
that got no 2xx sends again while it has attempts left; the first send is not assumed.
`FairPipelineSpec` assumes both for the composition. `FairSpec` of `Dashboard` assumes
that the timer fires, the API serves and the network delivers some call of those on their
way (not each: a list may be overtaken for ever), and nothing of the user.

**Mutants.** Every property of a passing run has a variant of a modelled definition in
which a plausible mistake is made (`mutants` in `PROJECT.json`), and TLC finds the property violated under it.
They are the operators commented "Mutant of".

## What is proved

**Workers and rows.**

- `WebhookProcessorProofs`, `TypeCorrect`: `Spec => []TypeOK`. `TypeOK` is not
  inductive: that `SaveRun` writes a row presupposes that there is one. The invariant is
  `TypeInv == TypeOK /\ Control`, where `Control` ties each worker's `pc` to the kind of
  its job, to a row that exists, and a replay job to a request that is `Past` its first
  two calls; and each request to its row and to the job whose id it will add, which may
  be another request's: two of one millisecond share it. A request that dies before its
  save has "failed", one that dies after it is "lost".
- `FiringProofs`, `OneRun`: `Spec => []OneRunPerFiring`. The invariant `FiringInv` says,
  while no lock was lost: `Locked`, every busy worker holds the lock of its job;
  `NoRowYet`, a worker about to create a row still finds none; and `Unique`. The
  argument: a second worker about to create a row for the same event would hold the same
  job's lock, so there is none; a row once created keeps its event and rule
  (`SameRows`), so nothing but `CreateRun` disturbs the answer of `findOne`.
- `LedgerProofs`: `RecordedIsReal`, `StatusAgrees`, `SuccessStays`, `PlanStays`. What
  makes them true is the version check of mongoose, so the invariant `LedgerInv` is about
  the copies of rows that workers and replay requests hold: `CopyOf` says that a copy is
  of its row, is no newer, and, if it has the row's version, `Continues` it: same actions,
  and every success of the row. The successes in rows and copies are `Backed` by
  effects. Every step then makes rows only `Advance`: the version grows and the slots
  continue the old ones, or version and slots stay and the status at most becomes `queued`.
  The last case is the unguarded save of the replay endpoint.
- `LedgerProofs`, `ImplementsLedger`: `Spec => KeepsLedger`, the refinement. What remains
  to show is that an action on record is executed only at a contested place. `OwnedInv`
  says that an uncontested row (`~Shared`) is run by at most one worker, whose copy has the
  current version; with `FiringInv` the worker is the one that holds the lock of the event's job.
- `AttemptProofs`: `FinishIsClean`, `ProcessedIsEvaluated`. The invariant `LoopInv` says what
  is known of the rules the loop has `Finished` while others write rows and edit rules.
- `AttemptProofs`, `RepeatsAreFaults`: `Spec => []RepeatsNeedFaults`. The bound alone is
  not inductive: an action that was taken as often as it allows must not be due.
  `RepeatInv` therefore distinguishes whether the success is `Known`, on record or in the
  copy of a worker that is running the row: effects are at most the faults plus one, and at
  most the faults while it is not. A success that is known is not due (`DueIsUnknown`, which
  needs `OwnedInv`: the worker's copy is the current one), and it is forgotten only at the cost
  of a fault (`ForgottenByFault`).
- `AttemptProofs`, `QueuedRowsArePursued`: `Spec => []QueuedIsPursued`. That a job is waiting
  or active does not say that it will still run the row, so the invariant `PursuitInv` says
  that some replay job `Chases` it: the job is announced by a request about to add it, or
  waiting with attempts to spare, or in the hands of a worker that either has the row at its
  version or is about to fail with attempts to spare. What an attempt can fail for is
  counted: a database error, or a refused save (`Spare`). The last can happen once only: a
  worker that read the row before the replay endpoint wrote the status, in a save that left the
  version alone, is `Blind` to it; its own save counts the version up, leaves the row queued, and
  makes the job's save the stale one. There is no second such worker afterwards (`BlindSave`).
  This is why `Tolerable` asks for two attempts more than there were database errors, and
  for no more stalls than the checker forgives (`StallInv`: a job stalls only by a
  crash or a lost lock).
- `AttemptProofs`, `OffRulesRest`: `Spec => OffRulesFireNoMore`. A rule is `Off` when it is
  disabled or deleted and no call of `process()` that found it is running. What such a call works on
  comes from its query: `SnapSteps` says that only `FindRules` adds to what a worker found, and
  only rules that are enabled, and `LoopInv` that the rules left to do, and the rule of the row that
  a job of an event runs, are among them. So no call can make a row of a rule that is off
  (`OffMakesNoRow`), and who executes its actions has a replay job (`OffActsByReplay`).

**Ingestion and the composition.**

- `IngestProofs`: `IngestTypeCorrect`, `StoredIsVerified`, `AcksAreBacked`, `OneJobEach`,
  `StrandedByFault`, all from `IngestInv`: what passed the checks is `Checked`, what
  was answered is `Backed` by an indexed event, `IndexUnique` and a job only for what is stored.
- `PipelineProofs`: `PipelineIngests`, the refinement of ingestion by the composition
  (workers never make a job appear or vanish, `JobsBehind`), and `OneRunEach`, for which
  the index lets one event of a webhook through (`IngestProofs`), its id one job, and the lock of that job
  one worker at a time (the lemmas of `FiringProofs` about steps, to which the composition adds its
  own, `AddJob`). `OnlyVerifiedRuns`: `JobsBehind` says that workers, rows and effects are of
  events that have a job, which by the refinement are stored, which by `StoredIsVerified`
  passed the checks.
- `PipelineProofs`: `WorkersKeepPromises`, `PipelineLedger`, `ActsOnceEach`. The workers'
  invariants, conjoined in `WorkInv`, hold of the composition: its steps are those of the
  workers, whose lemmas are about steps and not about `Spec`, or leave the workers' state alone, or are
  `AddJob`, which turns a job that is absent to waiting (`AddKeepsWork`). So the promises of the workers
  and the ledger hold while webhooks arrive. `ActsOnceEach` puts both sides together: two
  events of one webhook are not both stored with a job (`OneJobEach`), so the effects
  for it are those of one event, each counted by `RepeatInv`.

**Rule engine and dashboard.**

- `RuleEngineProofs`: `RuleTypeCorrect`, `UnpatchedThrow`, `OrderIsFree`, for every set of payloads
  and conditions; the invariant `RuleInv` adds that what was not patched is valid and that its
  values have texts.
- `RuleEngineProofs`, `EqualIsNotGreater`: `Spec => []EqualExcludesGreater`. That `getField` leads
  from a value to a value is an induction along the path, done with the set of the positions up to
  which it holds (`PathLeads`, `FieldIsValue`). The rest is `ValuesAssumption`, ECMAScript's: `Number()`
  of a value is that of its text, but for booleans and null, whose texts have no number. So
  where `equals` sees one text, `gt` sees one number, or no number on one of the sides.
- `DashboardProofs`, `TableInvariant`, `DashboardTypes`: `TableInv` adds to the types that calls, the
  rows shown and the rows served fit the tab they are for, that nothing is asked before a tenant is
  selected, and that a Replay button is held by one call at most.
- `DashboardProofs`, `NoRepeatedReplays`: `Spec => []ReplaysAreNotRepeated`. A stale row may be
  shown, or on its way, so `ReplayInv` says what follows it: where a row is shown as replayable
  that is queued by now, the replay that queued it, or a list sent after it, is `Pending` (and sent later
  than the list on its way that has the stale row), and holds the button. A list
  that is answered makes the older ones `late`, and showing a late one is an excuse ("overtaken").
  All this is said of the jobs in `ours`, which are queued (`OursQueued`): of a job that
  somebody else queued no call of this tab need be on its way.
- `DashboardProofs`, `QuietTablesAreTrue`: `Spec => []QuietRulesAreTrue`. `RulesInv` is of the same
  kind: while a table of rules differs from what the API would list, an edit that was made or a
  later list is on its way (`Covered`).
- `DashboardProofs`, `ClicksAtHome`: `Spec => ClicksStayHome`, a step at a time.

All rest on the named assumptions on the constants (`TypesAssumption`,
`QueueAssumption`, `RulesAssumption`, `RegistryAssumption`, `IngestAssumption`,
`PipelineAssumption`, `EngineAssumption`, `ValuesAssumption`, `DashboardAssumption`), which say that
identities of different kinds differ (`None` is no action type that has a class), rule and
row ids are ordered, and bounds are naturals; `ValuesAssumption` is explained above.
TLC evaluates each of them in a passing run. There is no bound in the theorems: they hold for any
number of events, rules, workers, rows and faults.

**Only model-checked.** Liveness, which is outside the prover's reach: `JobsSettle` (of the jobs
of events, not of replay jobs), `EventuallyDelivered`, `SenderIsAcked`, `ReceivedIsDelivered`,
`AckedIsDelivered`, `TableCatchesUp`. Every safety property that a passing run checks is a theorem.

## Not modelled

- Contents of notifications and CRM records, and the order in which two events write one
  record (`queue/actions/crm-update.action.ts:48`): no statement in the code says
  which write should be last, and the worker counts effects without ordering them.
- In `RuleEngine`, properties that are not data, such as the length of a string.
- A PATCH of a rule to `actions: null` or `[null]`, on which the worker throws outside the `try`
  around an action: in the model a rule's actions are a list of actions.
- Which of two configs an action ran with, when an edit changes the config and keeps the type.
- That a click may replay a job which somebody else's replay has queued already: the replay endpoint
  does not look at the row's status (`jobs/jobs.service.ts:58-97`). `Dashboard` has these clicks; no property
  is about them. What the second replay does to the row is in `worker_replay`, where two
  replays of one row race.
- More than one tenant in the worker: its queries carry the tenant of the job, and the
  guard and the lookups by tenant are in `WebhookIngest` and `Dashboard`.
- Creating tenants, which nothing but the seed script and an API client does, and
  `createTenant` and `createRule` of the dashboard's `api.ts`, which have no caller.
- The second run of effects in React's StrictMode, which development builds alone have;
  layout and texts.
- The backoff's length, removal of old completed jobs, growth of collections.
- Dependency injection, configuration, containers and build files, which have no
  behaviour of their own; of `main.ts` the validation pipe is modelled.

## What is left

1. That replay jobs settle, and replays and rule edits in `Pipeline`, once the state space allows
   for them.
2. CRM records with the order of writes.
