# CloudGrid in TLA+

CloudGrid is an observability and AI-evaluation platform. An OTLP collector takes
telemetry over HTTP and stores it as commands in a JetStream stream;
`storage-write` persists the commands in SurrealDB and announces them;
`storage-read` answers queries and feeds live views; a GraphQL backend (the BFF)
serves the browser; the control plane keeps projects, rules and settings; smaller
services evaluate alert rules, run AI experiments and delete old data. They
talk over NATS only.

This directory specifies the parts whose correctness depends on the order of
concurrent events, checks them with TLC on small instances, and proves the most
important results with TLAPS for every instance. Paths below are relative to
`src/`.

1. [Inventory](#1-inventory)
2. [Modules and the code](#2-modules-and-the-code)
3. [Runs](#3-runs)
4. [Where code and documents disagree](#4-where-code-and-documents-disagree)
5. [Fairness](#5-fairness)
6. [Proofs](#6-proofs)
7. [What is not modelled](#7-what-is-not-modelled)
8. [Plan](#8-plan)

## 1. Inventory

### How the parts interact

```
 exporter --HTTP--> otlp-collector --JetStream telemetry.ingest.*--> storage-write
                                                                       |        |
                                            persisted notification (NATS)    SurrealDB
                                                                       v        |
 browser <--WebSocket--> BFF <--request/reply, live events (NATS)--> storage-read
                          |                                             ^
                          +--request/reply--> control-plane <--> alert-evaluator
                          +--request/reply--> ai-eval-runner --> storage-write
 storage-maintenance --> SurrealDB
```

Only the ingest stream is durable. Everything else is core NATS: request/reply with a
timeout, or publish without acknowledgement. All services may run as several
replicas; the request subjects are plain subscriptions, not queue groups, so
each replica handles each request.

### Components

| Component | State it keeps | Operations | What makes it hard | What makes it correct |
|---|---|---|---|---|
| **Durable ingest** `core/storage-write/internal/ingest`, `adapters/surrealdb/client.go`, `resilience.go` | consumer state in JetStream, deliveries in handlers, one SDK connection behind a lock, a degraded flag, the `ingest_command` rows | fetch, handle a delivery (validate, check, persist, notify, settle), probe readiness, restart | at-least-once delivery, several replicas, AckWait passing during work, transactions of unknown outcome, a crash between commit and acknowledgement, waits for one lock | telemetry of a command is written once; nothing valid is acknowledged before it is durable; it is announced once and only after the write; every message is settled |
| **Telemetry records** `adapters/surrealdb/writer.go`, `otlp-collector/.../normalize.go` | the tables trace, span, log_event, service, metric_descriptor, metric_point | one transaction per command | batches of one trace or metric committing in any order, exporters that send again | nothing accepted is lost; aggregates cover what they aggregate; references resolve |
| **Alert evaluator** `core/alert-evaluator` | the alert history and silences in the control plane; none of its own | tick, evaluate on request, dispatch | read-decide-write over four bridge calls without a lock or lease, replicas, failures between the write and the dispatch | the history tells one story of each incident; cooldown and pending time hold; nothing is notified that is not in the history, or twice |
| **Live registry** `core/storage-read/internal/live.go` | the subscriptions of each replica with their numbers, counters and emitted traces | start, stop, persisted notification, heartbeat | three goroutines and a lock that does not cover the publish; replicas; lost stops | a limit that holds, exact counts, numbers used once, ADDED before UPDATED, no place held by what is over |
| **GraphQL WebSocket operations** `apps/backend/src/graphql-ws.ts`, `bridge.ts` | the operations of a socket, a generator for each | subscribe, complete, close, shutdown; start and stop of the session behind | `await` between the check and the change of the map; `return()` on a generator that waits; timeouts | no operation left on the map; each is ended and its session stopped once; nothing is sent for an operation that is over |
| **Dataset versions** `storage-write/internal/ingest/ai_handler.go`, `writer.go` | datasets, versions, item revisions, idempotency records | create, append, settings; not modelled: row updates, imports, candidates, results | idempotency read outside the transaction, optimistic versions, every replica performing every request at its own pace, transactions of unknown outcome | one version per key; versions form a chain from the create on; an answered edit stays |
| Collector export `core/otlp-collector` | the project-status cache | accept, authorize, publish a command and its projections | partial failure between publishes, cached status | accepted telemetry is in the stream; a closed project is refused within the bound |
| **Retention** `core/storage-maintenance` | leases, the selected roots of a batch | tick: acquire, execute, complete; requested batches | leases that expire while a batch runs, several replicas, a batch of several transactions while telemetry and policy change | two schedulers execute one class only a lease apart; no log goes before a rule says so |
| **AI chat** `control-plane/internal/ai_chat_run.go`, `service.go`, `apps/backend/src/ai-chat-stream.ts` | conversation, runs, messages; a stream request in the BFF | stream: create, append, relay, append, finalize, report; archive, delete | check before write in separate statements, whole copies put back, calls that time out and are handled late, a browser that goes away at any await | one active run; the browser is told what is stored; messages in the order of a dialogue; a recorded end stays |
| **Dashboards** `apps/frontend/src/routes/dashboards-route.tsx`, `features/dashboards`, `control-plane/internal/service.go` | a draft, a cached list, pending calls in the tab; the stored dashboards | open, edit, save, rename, copy, delete; solve the layout | drafts of an old list, answers that meet another draft, a rename of two statements, other users | no save covers content its draft did not start from; a rename leaves one copy; layouts stay valid |
| Control plane, other `control-plane/internal/service.go` | organizations, projects, members, invitations, credentials, rules | read and write of single records behind access checks | each replica performs each write | writes are idempotent |
| Evaluation runs `core/ai-eval-runner` | runs in process memory | start, pause, resume, cancel | callbacks on shared maps without a lock, restarts | a terminal status is final; control requests take effect |
| Queries `core/storage-read` | none | request/reply reads | - | - |
| BFF resolvers, authentication, frontend, packages, contracts | none, or what the server sends | - | - | - |

Bold components are modelled, in whole or in part.

`PROJECT.json` lists the main hazards of each component at their lines, with the
properties that would show them going wrong. Hazards of the code that are not in that
list:

- Evaluation runs (`core/ai-eval-runner/internal/orchestrator/runner.go`): start works
  in one callback and cancel, pause and resume in others, on shared maps without a lock,
  so a cancel before the final persist is overwritten by FINISHED; a pause does not stop the
  items; a restart forgets every run; a start repeated under its key runs
  everything again.
- Collector (`otlp-collector`): the command is published first and its AI projections one by one, so
  a failure in between makes the exporter send all of it again; nothing outside the tests
  refreshes the project-status cache.
- Live views: a subscription whose stop was lost, or whose start timed out in the BFF, is left
  to an idle cleanup that does not remove it (`AbandonedRemoved`, section 4); the limit on
  operations of a socket is checked before an `await`; a failed query ends the handling
  of a notification for the subscriptions that come later in the map's order.
- Alerts: one deadline covers all rules of a tick; a FIRING event whose dispatch failed is not
  dispatched again; silences, cooldown and pending time meet in one history
  (`IncidentHistory`); two evaluators decide from one event (`MCAlertOverlap.cfg`, section 4).
- storage-write: readiness is read before the wait for the connection and not after it
  (modelled, `OperationReady`); a late batch moves the window of a service back.

## 2. Modules and the code

| Module | Extends / instantiates | What it is |
|---|---|---|
| `PersistLedger` | - | what durable ingest promises, without mechanism |
| `StorageWriteIngest` | implements `PersistLedger` | the consumer, handlers, connection, transactions, processes |
| `StorageWriteIngestProofs` | `StorageWriteIngest` | proofs |
| `TelemetryRecords` | refines one action of `StorageWriteIngest` by hand: the commit | the contents of the tables |
| `TelemetryRecordsProofs` | `TelemetryRecords` | proofs |
| `AlertEvaluator`, `AlertEvaluatorProofs` | - | evaluations of one rule |
| `LiveTraces` | - | registries of storage-read with the BFF as their client |
| `LiveOperations` | - | a socket's operations in the BFF with storage-read as their server |
| `LiveProofs` | `LiveTraces`, `LiveOperations` | proofs of both |
| `AiChatRuns`, `AiChatRunsProofs` | - | one AI Chat conversation: the BFF's streams and the control plane's handlers |
| `DashboardLayout` | - | the layout solver, as operators |
| `DashboardDrafts`, `DashboardDraftsProofs` | `DashboardLayout` | the dashboard builder of a tab with the control plane that stores dashboards; the proofs cover the layout too |
| `DatasetVersions`, `DatasetVersionsProofs` | - | create, append and settings of datasets at every replica of storage-write |
| `RetentionBatches`, `RetentionBatchesProofs` | - | schedulers, leases and batches of storage-maintenance |
| `MC*` | the module of that name | instances for TLC |

Definitions named *Mutant* are wrong versions of the definition that follows
them. No specification uses them; they are there to show, for each property of a
passing run, a plausible bug in the code that the run would find.

### StorageWriteIngest

`consumer` and `numDelivered` are JetStream's durable consumer (`EnsureJetStreamWithOptions`:
explicit acknowledgement, `AckWait`, `MaxDeliver`, `MaxAckPending`). `Fetch` is an
iteration of `RunConsumerWithOptions`, which waits for the batch before
(`wg.Wait`). A `job` is a call of `HandleMessageWithMetrics`,
`handleMetricMessage` or `HandleAIProjectionMessage`: the three run the same
steps. Its `pc` splits the handler where other processes may act: `check` →
`lookup` (waiting for the connection to run CommandExists) → `persist` → `send` →
`await` → `notify` → `ack`. `OperationReady` is separate from the wait for the lock,
as in `QueryInTarget`. A transaction in `tx` may commit, abort, or be lost with its
connection, whether or not its handler still waits. `status` is the process and the
client's degraded flag; `CheckReadiness` is the only way out of it.

Contents of commands, logging, metrics and delays are left out. The delay of a
NakWithDelay is abstracted: a message due for redelivery may be fetched at any time
afterwards. JetStream and SurrealDB are external and modelled from what the code relies
on: a transaction is atomic, CREATE of an existing record fails, and an
acknowledgement settles the message whichever delivery it belongs to.

### TelemetryRecords

`PersistTelemetry` is the transaction of `BuildPersistQuery` and `PersistMetrics` that of
`BuildMetricsPersistQuery`, one action each: `StorageWriteIngest` shows that each
commits at most once, and in any order. Upserts with CONTENT replace, MERGE
replaces the fields it names, and the descriptor's statement takes unions and
extremes. The collector's choice of a trace's root span, and the keys a point's
limits drop, are nondeterministic. A span's record id is its span id; the runs
give spans distinct ids. A log and a point stand for their record ids, which the
collector derives from their content (`deterministicLogID`, `deterministicMetricPointID`), so a
batch that an exporter repeats under a new command has the same records. That a repeat makes no
duplicate is taken over from the code here and not checked; that it loses nothing and leaves the
descriptors as they are is (`AcceptedItemsStored`, `DescriptorsAggregate`).

### AlertEvaluator

Each goroutine that evaluates the rule is a scheduler (`Tick`) or a handler
(`EvaluateRuleRequest`), and goes through the bridge calls of `evaluateRule` one by
one; `Fail` is a call that fails or the deadline of the tick. A request times out after
1.5 seconds and is not withdrawn: `GiveUp` leaves a record request in `late`, and
`RecordAlertHistory` is the control plane handling it when its evaluation is over, in any order and
perhaps after the next evaluation has read. The constant `Prompt` assumes that it comes
before that read, as it nearly always will with 60 seconds between ticks. `history` is the
`alert_event` table in the order of its writes; which event is the latest goes by
`createdAt`. `Administer` is a project admin. The ERROR state
is in the tables of the decision but is never recorded: the ports return coded errors only,
and `evaluateRule` records nothing for those.

### LiveTraces

`subs[r]` is the map of replica `r`, `work[r][g]` the position of one of its three
publishing goroutines. `BeginPublish` is the part of `publish` under the lock; `Send` is
the publish outside it and `CompletePublish` the second lock section. A failed
publish leads to `FailPublish`, where every caller removes the subscription.
Requests of the BFF wait in `startQ` and `stopQ`. A replica's copy of a removed
subscription is dropped.

### LiveOperations

`operations` is the map of `handleMessage`, `task` the position of its message
loop, `generator` that of `subscribeLiveTraces` (`starting`: awaits the reply to its
start; `waiting`: awaits an event; `stopping`: awaits the reply to its stop). `returned` is the
set of operations whose iterator's `return()` was called, which takes effect
when the generator's wait ends. `session` is storage-read's side in one word; how it
comes about is `LiveTraces`.

### AiChatRuns

`pc[q]` is the call a stream request of `attachAiChatStreamRoutes` waits for, in the order of
the route: the conversation, `create`, `append` (user), the harness stream, `append` (answer),
`finalize`, the terminal event, and in the catch block the note and the second
`finalize`. `inbox[s]` is the one subscription of subject `s` in the control plane and
`handler[s]` where its goroutine stands between two statements; it holds the `copy` of the
conversation it read and puts back. The faults are a call that times out and is
handled later, a statement that fails, and restarts of either side. Text, tools,
artifacts and token counts are one fact, whether the answer has a part. One
control-plane replica is modelled: with two, `OneActiveRun` has nothing to rest on, since
each replica has a goroutine of its own. A failing append of the note in the catch block
leaves the run active: `RunsEnd` excludes it as a fault.

### DashboardLayout and DashboardDrafts

`DashboardLayout` translates `dashboard-layout.ts`: `Normalize`, `Compact` (place the widgets in
order, `Settle` each below what it overlaps), `Move` and `Resize`, and the control
plane's `validateDashboardInput` as `ValidLayout`. `DashboardDrafts` has the tab (`list`, `selected`, `draft`,
`saving`, `deleting`), the calls on their way and the handler of SaveDashboard, whose
reads are one step and whose two writes, the delete and the put of a rename, are one each.
A draft keeps what it was started from (`base`); the code keeps only its version. An
answer is applied to whatever draft is open when it comes, as `onSuccess` does. `OtherSaves`
and `OtherDeletes` are other users.

### DatasetVersions

Each replica of storage-write has a subscription per subject (`Slots`), whose callback is
`PersistEvalMutation`: `Lookup` of the idempotency record, `Commit` or `Reject` of one transaction
with the version check inside, and `ReadBack`. `Fail` is a query that fails at any of them; a
transaction that fails may have been committed. `Publish` reaches any subset of the
replicas. The client's version comes from a read of the dataset before; a repeated
request has the key and the input of the first. A version is kept as its number's
parent, the revisions it lists and the request it is from. Row updates write the same
records as an append.

### RetentionBatches

Each replica has a scheduler (`Scheduler.Tick`) and a callback for requested batches
(`handleExecuteBatch`), which shares its client's lock and takes no lease. `requestedAt` is the time the
tick reads once. Each statement of `hardDeleteSQL` and `softDeleteSQL` is an action,
because the query text opens no transaction: `FinalDelete`, `Select`, `DeleteSpans`,
`DeleteLogs`, `DeleteRoots`, `MarkRoots`. `StatementError` is one that fails by itself, after which the
next runs. TRACES stands for itself and LOGS for the seven classes without
dependent tables, whose statements repeat those of LOGS for each table. `UpdateRetentionPolicy`,
`PersistSpans` and `PersistLog` are the other services.

## 3. Runs

| Run | Instance | What it shows |
|---|---|---|
| `ingest` | 2 replicas, 2 messages of one command, 2 deliveries each, 1 crash | `WrittenAtMostOnce`, `AckedIsDurable`, `NotifiedOnceAfterCommit`, and `ImplementsLedger`: every step is one of the ledger or a stutter |
| `ingest_liveness` | 1 replica, 2 messages of one command and one that never validates, 1 crash, fair | `EveryMessageSettles` |
| `records` | 9 batches over 3 spans, 2 logs, 3 points | `AcceptedItemsStored`, `DescriptorsAggregate`, `PointsDiscoverable`, `ReferencesResolve`, in every order of commits |
| `records_counters` | the same | `CountersMatchTables` fails |
| `alert_one` | 1 scheduler, pending time 3, cooldown 3, 7 ticks of the clock, a record handled late but before the next read (`Prompt`) | `IncidentHistory`, `CooldownHeld`, `NoFiringSoonAfterInactive` |
| `alert_concurrent` | 2 schedulers, 1 handler, failures anywhere, 2 records handled late at any time | `NotifiedFromHistory` |
| `live` | 1 replica, 2 subscriptions, limit 1, buffer 2, 2 notifications | `ReleasedWhenOver`, `InFlightCounted`, `SeqDeliveredOnce`, `AddedThenUpdated`, and the limit (in `TypeOK`) |
| `operations` | 2 operations, limit 1, 2 payloads, fair | `NoStaleOperation`, `CancelledOperationsEnd` |
| `chat` | 2 requests, 2 keys, 1 fault or owner call | `OneActiveRun`, `CompletedIffReported`, `MessagesInOrder`, `UserMessageOnce`, `NoStuckStatus`, `EndIsFinal` |
| `dashboards` | 1 tab, 2 names, 2 kinds of widgets, 3 edits and calls, 1 disturbance | `LayoutValid`, `RenameMoves`, `MoveSettles`, `NoLostUpdate` |
| `datasets` | 2 replicas, a create, an append, its repeat, an update of settings | `ChainOfEdits`, `AnsweredEditKept` |
| `retention` | 2 replicas, 1 trace with a log, 1 log without, 2 policies, lease of 1, 2 ticks of the clock | `OverlapOnlyAfterExpiry`, `LogsKept` |

Deadlock is checked in all but the runs that end: `records` when every command is persisted,
`operations` when the socket is closed and all loops have returned, `chat` when both
requests are over, `dashboards` when the bounds leave the tab nothing to do, and `datasets` when
every request was handled.

Questions beyond these runs have a configuration that is run by hand
(`tlc -config X.cfg M`): those of section 4, and `MCAiChatEnds.cfg` (`RunsEnd`: every chat
run ends, under the fairness of section 5, when no fault or deletion comes in between).

### Why the bounds are enough

- `ingest`: every interference is between two handlers of one command or two
  deliveries of one message. Two messages of one command on two replicas with two
  goroutines each give both at once, with a third and fourth delivery as interference;
  the crash makes a delivery that nobody handles. `MaxDeliver = 2` is the smallest
  value with a redelivery and a last delivery. `MaxAckPending` and
  `PullBatchSize` of 2 are reached. What does not depend on these bounds is
  proved (section 6).
- `ingest_liveness`: one replica suffices to be stuck; the second handler of the batch
  waits for the lock of the first, the crash empties the process, and the
  invalid message leaves by another path. Two replicas are beyond TLC here.
- `records`: every pair of kinds of batch that touch one record is there: two
  parts of one trace, a repeat of both, logs before and after the trace they
  belong to, points of one metric with different keys and times, a batch that
  spans two metrics. Orders are not bounded.
- `alert_one`: seven clock values hold a pending time of 3, a cooldown of 3 and an
  evaluation on either side of both, with silences and a disabled rule in between. With
  `Prompt`, one scheduler never has more than one request given up (`Overdue`, proved), so `MaxLate` is 1.
- `alert_concurrent`: three evaluations can be in progress at once; any two are enough
  to race. The pending time is 0 so that every evaluation may fire. `Prompt` is not
  assumed, and two requests may wait after they were given up.
- `live`: a limit of 1 with two subscriptions makes one refuse or wait for the
  other; the buffer of 2 is reached by two of the three goroutines publishing at
  once. The clock has two values: time matters through "stalled" and
  "heartbeat due" only, and both of their values occur. Two notifications give a
  trace its ADDED and its UPDATED. Replicas share no state, so one stands for each;
  the proofs are for any number, except that `ReleasedWhenOver` holds for one only (section 6).
- `chat`: two requests are enough to race for the active run, to repeat a key and to meet in
  every queue. One disturbance (`MaxDisturbed`) is a timeout, a failed statement, a restart, an
  archive or a delete at any point; a second one is beyond TLC here. All properties of the run are
  proved for any number of both.
- `dashboards`: `MaxWork` bounds the edits, saves and deletes of the tab, `MaxForeign` the saves and
  deletes of others, the timeouts and the failed statements. Three and one are enough for an edit,
  a save that times out and a save that meets it, or for a rename with another user in between. The two
  widgets have different sizes, and the steps push a widget into the other and
  out of the grid. All five properties are proved without the bounds, for every kind of widget and every distance.
- `datasets`: one edit that races its repeat and another edit, at two replicas with a
  queue each, has every order of two performances of each request. Any request may fail at
  every query.
- `retention`: `MaxBusy` lets two of the four workers be at work at once, any two;
  three clock values let a lease of 1 expire during a batch and be taken again. The
  trace has ended before the start, its log is younger, the other log older, so
  a hard delete of the trace must leave its log. `Limit` 1 makes a batch leave rows behind.
- `operations`: two operations are enough for one to use up the limit of the other; two
  payloads show one sent and one refused.

## 4. Where code and documents disagree

The run `records_counters` checks one sentence of a document and finds a behaviour of the
code that contradicts it. Each span batch writes the trace record anew with the
counters of its own spans and a log count of zero. A trace that was exported in two
batches shows the counters of the one that committed last.

The configurations below each end with a counterexample. They are kept to be run
by hand.

| Configuration | Property | The sentence, and what the code does |
|---|---|---|
| `MCAlertPending.cfg` | `FiringWasPending` | `operations/alerting.md:39` puts PENDING for `pendingForSeconds` before FIRING. A PENDING event takes over `startedAt` from the event before it, also from OK or RESOLVED (`evaluator.go:735`), so a rule may fire after less. `NoFiringSoonAfterInactive` is what still holds. |
| `MCAlertLate.cfg` | `NoFiringSoonAfterInactive` | Without `Prompt`: the record of a RESOLVED event times out (`nats_ports.go:252`) and is handled after the next evaluation has read PENDING as the latest event, which then fires by the old start. No document excludes it; the run shows why the theorems on one scheduler assume `Prompt`. |
| `MCAlertOverlap.cfg` | `CooldownHeld` | `specs/06-nfr/performance-and-scaling.md:54` has a scheduler lease for alert rules; the code has none, so the schedulers of two replicas decide from the same latest event (`evaluator.go:269`) and both announce it. |
| `MCLiveOrder.cfg` | `SeqInOrder` | `specs/02-flows/observability/live-trace-subscription.md:33` says "ordering: per-subscription-seq". An event gets its number under the lock and is published after it, so two goroutines may publish in the other order. |
| `MCLiveAbandoned.cfg` | `AbandonedRemoved` | The same document, line 152: "storage-read idle cleanup remains the fallback". The publish of a heartbeat counts as progress and needs no subscriber (`live.go:265`), so the cleanup never removes a subscription whose stop was lost. |
| `MCOperationsComplete.cfg` | `NoPayloadAfterComplete` | Line 132: "no additional live events are forwarded to the cancelled GraphQL operation". `complete` during the `await` of `subscribe()` finds no operation; it is registered afterwards (`graphql-ws.ts:211`) and streams on. |
| `MCAiChatArchive.cfg` | `ArchivedStays` | `specs/04-backend/ai-chat.md:300`: archiving "hides it from default history, and prevents new runs". Create, append and finalize put back the conversation they read before the archive (`service.go:1313`), and it is active again. |
| `MCDashboardsMove.cfg` | `MoveKeepsWidgets` | `specs/05-frontend/dashboard-widgets.md:170`: the layout engine "must not silently overlap widgets or discard the dragged widget". A new widget's id is made of how many there are (`dashboards-route.tsx:1644`), so an id repeats after a removal, and a move of one of the two drops the other (`dashboard-layout.ts:263`). While ids are distinct nothing is lost (`MoveSettles`). |
| `MCDatasetsCreate.cfg` | `CreateKeepsEdits` | `specs/04-backend/ai-eval-message-contracts.md:114`: "Repeated idempotent requests return the existing entity". Every replica performs a create; one that read the idempotency records before the other wrote puts the dataset back to its first version later, and answered edits are gone from its history. |
| `MCRetentionLease.cfg` | `OneReplicaPerLease` | `specs/04-backend/data-retention-policy.md:132`: "Only one storage-maintenance replica may execute a project/data-class batch" while the lease is valid. A lease counts from the time of the tick (`scheduler.go:84`) and is not renewed, so a batch that outlasts it goes on while another replica holds the next. |
| `MCRetentionOrphans.cfg` | `NoOrphanedSpans` | Line 76 of it: "no orphaned spans, links, logs [...] remain". The deletes of a batch are separate transactions: spans stored after `DeleteSpans` stay when the trace goes. |

Found with the models, in their by-hand variants:

- *Dashboards.* A dashboard that is deleted and created again has the same id and
  starts at version 1 again, so a draft of the old one passes the version check
  (`service.go:2155`) and covers the new one, against `manage-dashboards.md:142`;
  `NoLostUpdate` holds within one life of a dashboard only. The answer to a save closes whatever draft is open
  by then (`dashboards-route.tsx:194`), and `manage-dashboards.md:141` says the frontend "does not
  silently lose edits". A rename whose put fails after its delete has lost the dashboard.
- *Retention.* An error of the lease store ends the tick (`scheduler.go:100`), though a failure in one data
  class "must not stop the rest of the tick" (`data-retention-policy.md:108`). Rows marked under a soft rule are
  never deleted once the rule changes to another mode, because only the soft
  statements delete them. A hard delete of traces deletes logs by the cutoff of the
  traces, also when LOGS is to `retain` (line 54); that is what line 217 asks for, and
  what the second disjunct of `LogsKept` allows. The soft mode leaves spans alone.
  `data-retention-policy.md:133` lets a replica take a lease when `expiresAt <= now`; the code
  compares with the time of the tick (`query.go:127`), which a long tick leaves behind, so it takes an expired
  lease later than it might, never earlier.
  A completion matches the owner of the lease, not its time, so it may be
  written to a later lease of the same owner.

Observed while reading, not checked by a run:

- The span's record id leaves the trace out, although
  `specs/04-backend/surrealdb-persistence.md:55` includes it: equal span ids of two
  traces share a record.
- The ERROR event of `operations/alerting.md:45` cannot be recorded.
- `specs/06-nfr/performance-and-scaling.md:52` has queue subscribers in storage-read; the
  code subscribes each replica to everything. So a replica that is slow to start a session may do so after it
  handled the stop, and `ReleasedWhenOver` holds for one replica only.
- The limit on operations of a socket is checked before an `await`, so operations
  that wait together all pass it; a start that times out in the BFF leaves a
  session that nothing stops.
- A log's id is a hash of its time, trace, span, severity, body and service
  (`normalize.go:617`), not of its attributes: two logs that differ in those only share a record.
- Nothing refreshes the collector's project-status cache.
- Datasets: an append writes only the first of its rows (`ai-eval-message-contracts.md:29` has
  rows); its version lists the new revision only and no settings, while a settings update copies the parent's
  list; the BFF's row update leaves out the version the writer expects; a
  repeated append is answered with the revision instead of the dataset; an error may
  be the answer to a committed edit; an import is not version-checked, and the version it
  announces is written by nobody.

## 5. Fairness

`StorageWriteIngest!FairSpec` assumes that JetStream's timers fire and its advisory is
given, that SurrealDB answers or fails each transaction (the SDK's connection times
out), that a stopped process is restarted (the deployment's restart
policy), and that the loop of `RunConsumerWithOptions` and its goroutines go on.
The fairness of a replica's consumer is weak fairness of the disjunction of its
steps: some handler moves, not a particular one. Nothing is assumed of the
readiness probe: a client may stay degraded for ever, and then messages are given up.
`CheckReadiness` may degrade and restore a client without end, and crashes are
bounded by `MaxCrashes`, so that a process which crashes for ever is excluded.

`LiveOperations!SocketFairSpec` assumes that what the code awaits ends: authentication,
the start and stop requests (each has a timeout), and a wait whose queue
was closed. Neither payloads, nor the watchdog, nor storage-read, nor the client are
assumed to do anything.

`AiChatRuns!FairSpec`, for `RunsEnd`, assumes that the control plane's goroutines go on, that
a request whose call was answered goes on, and that a harness stream ends or fails (it has
a timeout); nothing of the browser, the owner or faults.

The other specifications have safety properties only.

## 6. Proofs

All theorems hold for every value of the constants that satisfies the module's
named assumption; each is proved from `Spec` alone.

**StorageWriteIngestProofs** (`IngestAssumption`). `Typed` is type correctness. `Safe` proves `IngestInv`, which
is inductive together with `TypeOK`: the three guarantees are not inductive
on their own, because nothing in them says why a handler may acknowledge or
announce. The strengthening says that a handler past `await` has a
committed command (`CommittedHandlers`), that at most one handler of a command is about to
announce it, and nobody has (`OneAnnouncer`, which rests on CREATE failing for
every transaction but one), and that what is invalid never gets past the
checks (`OnlyValidProceed`). Steps that leave the ledger, the notifications and
every acknowledgement alone are handled together (`QuietStep`); commit, publish, ack and
nak have a lemma each. `WrittenOnce`, `AckedDurable` and
`NotifiedOnce` follow. `Implements` proves the refinement: under the mapping
`written <- ledger`, `announced <- {c : notifications[c] > 0}`,
`settled <- Settlement`, each step is a `LedgerNext` step or a stutter, by
`IngestInv`.

**TelemetryRecordsProofs** (`RecordsAssumption`). `RecordsTyped` is type correctness; the counters are
cardinalities, so it rests on finite batches. `Aggregates` proves
`DescriptorsAggregate` together with `KeptKeys`: the union of keys and the widest window are kept
by `UpsertDescriptor` whatever batch comes (`WidenedWindow`). `Discoverable`
follows from it. `Resolvable` is inductive by itself once typed: no transaction
removes a record (`RecordsKept`). `Stored` assumes `DistinctSpanIDs`, that exporters never
use one span id for two spans: the record id of a span leaves its trace out, and without the
assumption a later batch replaces an accepted span.

**AlertEvaluatorProofs** (`EvaluatorAssumption`). `EvaluationsTyped` and `Notified`. That no event is notified
twice needs an identity for events, which is their time: the invariant `Inv` says that an evaluation's event
has the evaluation's time and, at dispatch, is a FIRING one of the history
(`EventOfEvaluation`), that no two running evaluations have the same time
(`DistinctTimes`), and that no running evaluation has the time of a notified event
(`NotifiedBefore`). Both hold whenever requests that were given up are handled. The theorems about the history, `IncidentsOfOne`, `CooldownOfOne` and `FiringOfOne`, are for one scheduler,
no request from outside, and `Prompt`: `CooldownHeld` and the others need all three (section 4). `WellOrdered` relates
each event to the one before it (`Follows`) and to all before it (`Later`); `Deciding` says
that the evaluation under way is later than all of them, decides from the newest, and records
only what fits; `Overdue` says that a request given up is the only one and that its event still fits until the next
evaluation reads: nothing else is written meanwhile.

**LiveProofs** (`LiveAssumption`, `OperationsAssumption`). One module for both live modules, which is why the
definitions of `LiveOperations` that every module has are named `SocketTypeOK`, `SocketInit`, `SocketSpec`, and so on.
For the registry, none of the run's properties is inductive, since each is about what a
publisher does outside the lock with what it took under it. The invariant `Inv` says of each replica what its three
publishers hold of a subscription (`Local`): the counter is the number of publishes in
progress (`Counted`); the number each publisher has drawn is below `nextSeq`, and no other
publisher has it and no event that arrived (`Numbered`); a trace is marked when the client was told, or is being told, or the
telling has failed and the subscription is about to go (`Marked`). The last disjunct is why a
failed publish must end the subscription: it would otherwise report UPDATED for a trace the client never saw.
It starts from nothing, because a subscription is started once in each replica (`StartedOnce`, `Untouched`).
`TracesTyped` (with the limit), `InFlightExact`, `NumbersUnique` and `AddedFirst` follow for any number of
replicas, subscriptions and traces, any limit and any buffer. `OneReplicaReleases` proves `ReleasedWhenOver`
for one replica, and says so: with several, the client hears the first reply only, and the start request of another
replica may be handled after the stop request was, so the property does not hold.
For the socket, `OperationsTyped`, whose bound on `stopSent` says that a session is
stopped once, and `NoneStale`. `OpsInv` orders what happens to an operation:
nothing before the client subscribed (`NewUntouched`), no generator and no return before it
is registered (`GeneratorRegistered`, `ReturnedRegistered`), no stop request
before the generator leaves its last wait (`StopIsLast`).

**AiChatRunsProofs** (`OwnerAssumption`, `DisturbedAssumption`). `OneActiveRunAlways`: the check of CreateAiChatRun and its put are
two statements. The invariant `PutIsFree` says that what the check saw still holds at the
put: only the create handler makes a run active, and the subject has one. `TypeCorrect` is
type correctness. `EndIsFinalAlways`: FinalizeAiChatRun puts the status it is told without a look at
the stored one, and a call that was given up is handled late. `EndsInv` looks at the line of
finalize calls not yet stored, the one in the handler first: what stands in it and what is stored are bounded by the place of the
request (`EndsOfPlace`), behind an unsuccessful end comes no other (`UnsuccessfulIsLast`),
and a request creates its run once, before it ends it (`CreatedOnce`). Handled, refused and lost
calls leave a suffix of the line (`LineShrinks`), which keeps all three (`Shrinking`).
The other four properties need more of the same kind, and each invariant uses the ones before it.
`KeptInv`: as long as nobody deletes the conversation, it is there and no handler holds a copy that says
otherwise (`PresentCopies`), what is kept of a request has its run (`RunsKept`), and no two requests with a run have one key (`KeyOnce`;
`PutFresh` says that the check of the key still holds at the put): so `UserMessageOnceAlways`. `OrderInv` compares the messages that are stored, the
appends that wait, the one in the handler first, and the place of the request, pairwise: so `MessagesInOrderAlways`, although a call that
was given up is handled later. `ReportInv` says that what a request was told was done is
done (`OkDone`), that a run reported as completed has an answer and no other end behind it (`Reported`), and, while no
fault and no owner disturbs, that no end is refused (`NoError`) and a run that was not reported as completed never is (`Unreported`):
so `CompletedIffReportedAlways`. Without a fault the request of every unanswered call waits for it (`Waiting`), so whoever
can leave a status of streaming behind has a request on its way to clear it (`Unstuck`): so `NoStuckStatusAlways`.

**DashboardDraftsProofs** (the assumptions of `DashboardDrafts`). The argument is about references: stored records, those of the tab's
list, and those that drafts and calls started from. Two references with one `createdAt`
and one version have the same content, because a record is written with a version above
that of every reference to its life. `NoLostUpdateAlways` and `RenameMovesAlways` follow for every number of edits,
saves and faults; the second also needs that no two names, nor a name and a
rename under way, hold one `createdAt`. `NormalizedInGrid`, `NormalizedStays`, `DefaultsInGrid` and `BlockedOnce` are about the layout: a normalized
layout lies in the grid, normalizing is idempotent, defaults are in the grid, and a widget pushed below another
does not meet it again, which is why the settling loop ends. On them rests what the solver computes for every list of widgets: a
widget settles in the first row from its own on that is free (`Settled`, by induction over the rows, `Search`), each widget of a packed list settles
below the ones before it (`Packed`, over the list), and the two orders of the solver pick every widget at most
once (`OrderedPicks`, `SortPicks`). So what is compacted lies in the grid without an overlap (`CompactValid`), also
with two widgets of one id. `Contents` carries that through the steps: every list of widgets anywhere, in
stored records, the tab's list, the draft, the calls and the handler, is no longer than the edits allow and was
compacted. `LayoutValidAlways` follows. `Bounded` counts versions: a record's version is at most one more than the saves that were
handled and the interference of others, where a save that waits has not counted yet; with it `TypeOKAlways`. `MoveSettlesAlways`, which with distinct ids also
rules out that a widget is lost, reads `Packed` for the list in which the moved widget comes first. The prover knows nothing of `SelectSeq`,
`SortSeq` and `FoldLeft`, and its rules for induction take an operator as a parameter, which no backend
can instantiate. The layout module therefore says what `filter`, `sort` and the loop compute by the position of each element and by a
recursive function, and the proofs use an induction that is stated of a set of
naturals (`UpTo`, and `Recursion` for a recursive function).

**DatasetVersionsProofs** (`DatasetsAssumption`). Requests with one key carry one input, hence expect one version. When a
transaction adds version n + 1, an earlier version of the same key would be from an edit
that expected less than n: so `ChainAlways`. The idempotency record is written with the
version (`RecordedEditKept`), and a callback answers without an error only when the
record is there: so `AnsweredAlways`. `DatasetTypes` is type correctness.

**RetentionBatchesProofs** (`RetentionAssumption`). `OverlapBound` rests on an invariant that a scheduler executing a
class has a lease at least `requestedAt + LeaseTime` long; the next one is acquired
only with a `requestedAt` not before that. `LogsAreKept` rests on one that the rule of a
batch is in `past` and its roots of LOGS were due when they were selected; the log of a
trace is checked again by its own time when it is deleted. `TypeCorrect` is type correctness.

**Model-checked only**: the liveness properties (`EveryMessageSettles`,
`CancelledOperationsEnd`, `RunsEnd`), because the prover has no rules for fairness, and `ReleasedWhenOver` for
more than one replica, which does not hold. Every other property of a passing run is a
theorem above. That each action of `TelemetryRecords` is a commit of `StorageWriteIngest` is an argument by
hand, and the properties of section 4 are counterexamples.

## 7. What is not modelled

`PROJECT.json` names each component with the reason. In short: stateless
translation (queries, resolvers, validation, contracts), the rest of the browser, deployment
and documents have no state of their own to order; collector export and evaluation
runs have, and are planned. Inside the modelled components:

- record contents beyond what the properties read, search
  projections and `metric_ingest_cardinality`, message parsing, delays, logs and
  metrics of the services themselves, and memory;
- chat: the tools and the harness itself, action proposals, UpdateAiChatRun (no caller), a second
  replica of the control plane, the end of the idempotency window;
- dashboards: undo and redo, save conflicts and the discard question (the reducer has them, the
  route does not call them), narrow and stacked layouts, pins, visibilities,
  built-in dashboards, a second replica, the reads of a save one by one;
- datasets: row updates of their own, imports, candidates, results, evaluations, other tables;
- alerts: `handleNotificationDispatch` (`runtime/service.go:84`), which dispatches whatever event it is
  sent, in the history or not, and which nothing in the repository sends one; the order of rules in a tick; requests
  that set their own clock;
- retention: the six classes besides TRACES and LOGS, dry runs, audits, the schema check, a requested batch with a
  time or a limit of its own (the request's time is only checked to be there and a missing limit is 1000; nothing
  in the repository sends one, so it is given the time of the clock and the scheduler's limit).

## 8. Plan

Order of work, most important behaviour first:

1. *Done*: `PersistLedger`, `StorageWriteIngest` and its proofs; `TelemetryRecords` and its proofs;
   `AlertEvaluator`, `LiveTraces`, `LiveOperations` and first proofs.
2. *Done*: `AiChatRuns`, `DashboardLayout` and `DashboardDrafts`, `DatasetVersions`, `RetentionBatches`, each
   with its proofs.
3. `EvaluationRuns`: start, pause, resume and cancel as concurrent callbacks, and a restart.
   Properties: a terminal status is final; what was persisted is what was reported.
4. `CollectorExport`: the requests of exporters who retry, the publishes of a
   command and its projections. It composes with `StorageWriteIngest`, whose
   `Publish` it explains.
5. *Done*: proofs of every safety property of the passing runs.
6. Proofs: that `TelemetryRecords` implements the commits of `StorageWriteIngest`, which needs the contents
   of commands in both.

Runs stay few: each new module gets one instance for its safety properties, and the
disagreements of section 4 whose run is displaced stay described there.
