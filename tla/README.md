# Feloxi: a specification in TLA+

Feloxi watches Celery deployments. A Rust server (`src/crates/api`) connects to
its users' message brokers, stores task and worker events in ClickHouse, keeps
live state in Redis and configuration in Postgres, evaluates alert rules, and
notifies people through chat, paging, mail and webhooks. A Next.js dashboard
(`src/apps/web`) talks to the server over HTTP and a WebSocket.

This directory models the server: the path of an event from a broker to the
tables, the dashboards and the alert conditions; incidents, their notifications
and retries; broker connections; sessions, permissions and settings. TLC checks
the models on small instances; TLAPS proves every safety property they check but
one, of every component, for every value of the constants.

## Inventory

Paths are relative to `src/crates/`. Everything shares one process: a
multi-threaded Tokio runtime with one task per HTTP request, one per broker
connection, and the background tasks of `spawn_background_tasks`
(`api/src/main.rs`).

Everything here assumes that one such process runs. The manifests provide for
that: the Helm chart and `deploy/k8s/20-api.yaml:7-11` replace the pod rather than
roll it and ask for one replica. `docs/sizing.md` (lines 22 and 121) and
`docs/self-hosting.md:182` nevertheless recommend several instances behind a load
balancer. What then happens is not modelled, and nothing in this directory holds
for it: two evaluators with throttles of their own, two consumers of every
broker, and two of each drain.

| Component | State | Operations | Interacts with | Hard because | Correct when |
|---|---|---|---|---|---|
| Alert evaluator (`api/src/main.rs`, `alerting/src/recovery.rs`, `throttle.rs`) | `alert_history` rows; clear streaks and flap throttle in memory; per-pass snapshots | one pass a minute | reads rules and silences the API writes; sends through the channels; feeds the retries | awaits between its reads, sends and writes; handlers change the tables in between; a failing read looks like an empty one; restarts lose the memory | one open incident per rule; closed only for cause; silences hold notifications; cooldown between incidents; settles |
| Rules and silences API (`api/src/routes/alerts.rs`) | `alert_rules`, `alert_silences` | create, update, delete; create, expire | evaluator, through Postgres | concurrent with a pass | as above |
| Alert conditions (`api/src/alert_context.rs`, `alerting/src/engine.rs`, `stats.rs`) | none | read, take a statistic, compare | events, Redis, Postgres | ten reads that fail one by one; several conditions are met by what is not there | met only for cause, whichever read fails |
| Channel senders (`alerting/src/channels`) | none | `send` | providers | six ways to report the same failure | a `SendResult` tells final failures from transient ones |
| Delivery retries (`api/src/alert_dispatch.rs`, `db/src/redis/cache.rs`) | Redis ZSET of jobs; the delivery log of a row | schedule; drain every 30 s | evaluator adds, drain takes and adds | check-then-add and read-then-remove are two commands; jobs in memory while sent | budget of three sends; nothing forgotten or sent twice over; the log tells the truth; queue within its cap |
| Retry buffer (`api/src/broker_conn/pipeline.rs`, `db/src/redis/cache.rs`, `drain_retry_queue`) | Redis lists of event batches; pipeline counters | insert with a retry, push, trim; drain every 10 s | broker tasks push, drain pops and requeues; ClickHouse | outages, lost replies, overflow, restarts between pop and insert | no uncounted loss, no unexplained duplicate, bounded, drains |
| Broker connections (`api/src/broker_conn/manager.rs`, `routes/brokers.rs`, the two consumers) | `broker_configs` row; map of connections; cancellation tokens | create, start, stop, delete; supervise; auto-start | handlers and consumer tasks, through map, tokens and status | handlers overlap; three steps in `start`; consumers report late | one live consumer when active, none when not; told to stop means ends; status means what it says |
| Ingestion, fan-out, worker liveness (`pipeline.rs`, `db/src/redis/cache.rs`) | two batches per consumer; task-name cache; worker state, heartbeat and online set | batch, flush, backfill, update, broadcast | consumers of one tenant share the cache and the worker keys | names arrive on other events; each Redis command is a step; keys expire | names stick; worker state follows the newest event |
| Live feed (`api/src/ws/handler.rs`, `state.rs`) | broadcast channel; subscriptions; gathered batch | subscribe, take, lag, flush | every event source | slow readers skip events in the middle of a batch | counts and frames add up to the events taken |
| Task events and queries (`db/src/clickhouse`, `routes/tasks.rs`, `routes/metrics.rs`, `engine/src/dag_resolver.rs`) | `task_events`, two summed views | insert; lists, chains, graphs, counts; retry and revoke | ingestion writes, pages and conditions read | fields are on some events only; events come in any order and batch; paging while rows arrive | pages cover, chains are lineages, graphs have no cycle, numbers side by side agree |
| Sessions, invites, magic links (`api/src/routes/auth.rs`, `tenants.rs`) | refresh tokens, invites, links, users in Postgres | login, refresh, switch, verify, invite, accept, register, logout, remove, reset | each other, through rows | read and write are separate statements | single use under concurrency; a rotation never loses the session; what was withdrawn stays so |
| JWT, RBAC, API keys (`auth/src`, `routes/api_keys.rs`, `tenants.rs`) | users, roles, keys; access tokens with their holders | authenticate, make and revoke keys, remove members | every handler | tokens outlive what they say; a key is three lookups | no request holds more than its person and key; removal is final; somebody can manage |
| Integrations and OAuth (`routes/oauth_*.rs`, `db/src/postgres/integrations.rs`, `db/src/redis/cache.rs`) | nonces, cached channel list and its lock in Redis; rows | connect, callback, delete, revoke, pick a channel | providers | Redis falls open; the lock expires and is released by whoever | a nonce is good once; one request enumerates; the list is that of the token |
| Retention (`routes/tenants.rs`, `db/src/postgres/retention.rs`, `clickhouse/retention.rs`, `main.rs`) | rows per tenant and resource; TTL per table | save, hourly sweep | pages save, sweep reads | three upserts, many reads, two ALTERs, each may fail | tables keep what the shortest row says |
| Migrations, web application, deployment | | | | | see *Not modelled* |

`PROJECT.json` lists every component with its status, every hazard at its line,
and which property watches it.

## Modules

| Module | What it is | Built on |
|---|---|---|
| `AlertIncidents` | the evaluator of one tenant with the handlers it shares tables with | |
| `IncidentContract` | what the alerting promises; `AlertIncidents` implements it | |
| `AlertIncidentsProofs` | theorems about both | `AlertIncidents` |
| `DeliveryOutcome` | what each sender reports, and `is_retryable` | |
| `DeliveryRetry` | the evaluator's sends, the ZSET of retries and its drain | `DeliveryOutcome` |
| `DeliveryRetryProofs` | theorems about it | `DeliveryRetry` |
| `RetryBuffer` | the insert of batches, the Redis list and its drain | |
| `BrokerConnections` | one broker: handlers, manager, supervisor, consumer tasks | |
| `BrokerConnectionsProofs` | theorems about it | `BrokerConnections` |
| `Ingest` | consumers of tenants: batches, names, worker keys, broadcast | |
| `LiveFeed` | a WebSocket on that broadcast, composed with `Ingest` | `Ingest` |
| `IngestProofs` | theorems about both | `LiveFeed` |
| `EventStore` | task events, the two summed views, retry and revoke of a task | |
| `TaskQueries` | lists with their cursor, retry chains, workflow graphs | `EventStore` |
| `Dashboards` | the counts of the pages, one operator per query | `TaskQueries` |
| `AlertConditions` | when a condition is met, and what for | `Dashboards` |
| `StorageProofs` | theorems about `RetryBuffer` and about the last four | `RetryBuffer`, `AlertConditions` |
| `Sessions` | one person's ways into and out of organisations | |
| `SingleUseTicket` | what a mailed link promises; `Sessions` implements it | |
| `SessionsProofs` | theorems about both | `Sessions` |
| `AccessRules` | tokens, API keys, permissions, the team | |
| `Retention` | saved retention and its enforcement | `AccessRules` |
| `TeamAccessProofs` | theorems about the last two | `Retention` |
| `Integrations` | OAuth flows, rows of integrations, the Slack channel list | |
| `IntegrationsProofs` | theorems about it | `Integrations` |
| `MC_*` | the instances TLC checks | |

In a module, each statement, command or await of the code whose effect another
task could come before or after is an action; what a handler does without
awaiting is part of the action before it. A step that fails is a disjunct of
the action, paid for from `faultsLeft`. A variable marked *history* is read by
properties only, never by a guard. A definition marked *slip* is not part of the
specification: it is the mistake the property next to it was tried against.

### AlertIncidents

One pass is `LoadRules`, `LoadOpen`, `CloseOrphan` for every open incident whose
rule is not listed, `LoadSilences`, then one evaluation per listed rule, and
`EndPass`. The match on `(fired, open_since)` of the code is six actions:
`StillFiring`; `FiringThrottled` and `NewIncident`; `StreakGrows` and
`StreakComplete`; `Quiet`. Opening goes through `Deliver` (one per channel) and
`RecordFired`; resolving through `ResolveIncident`, `Deliver` and `NoticeSent`.
A failing read yields what `unwrap_or_default` yields, a failing write is passed
over.

| Model | Code |
|---|---|
| `rule`, `silences` | `alert_rules`, the active rows of `alert_silences` |
| `openRows` | the rows of `alert_history` with `resolved_at` null |
| `streak`, `age` | `ResolveTracker.clear_streaks`, time since `AlertThrottle.last_fired` |
| `dbRules`, `openAlerts`, `activeSilences` | the locals of a pass |
| `firing` | what `evaluate_condition` yields on the metrics of the moment |
| `clearRun`, `sinceFired`, `covered`, `retired` | history |

One tenant is modelled: rules, rows, silences, streaks and throttle entries are
all keyed by rule or tenant, and a pass takes tenants one after the other.
A listed rule is evaluated in any order, where the code follows the query's.

### DeliveryRetry

`OpenIncident`, `FirstSend`, `RecordOk` or `RecordFails`, `QueueFirstRetry` and
`AddFirstRetry` are the firing branch of the evaluator as far as deliveries go;
`ReadDue`, `RemoveDue`, `RetrySend`, `RetryLog`, `QueueNextRetry`,
`AddNextRetry` are a pass of the drain. ZCARD and ZADD, and ZRANGEBYSCORE and
ZREM, are separate actions because they are separate commands of tasks that
share no lock. `record_alert_fired` inserts a row and updates the rule in two
statements: when the second fails the row is there, `half_recorded`, and the
evaluator goes on as if it were not. A score is modelled by `JobComesDue`, which
may come at any time: backoff and `Retry-After` change when, not whether. A
provider answers in one of six ways; `DeliveryOutcome` translates each sender's
code from that answer to the two fields of `SendResult` the policy reads.

`log` and `evLog`, the map the evaluator fills before it inserts the row, have an
entry per `delivery_key` (`Key`), as the code's maps have: the channel's type,
with the integration if it has one. Channels that share a key, two Slack channels
of one integration or two inline webhooks, overwrite each other's entry; the
instance has such a pair. `unlogged` is history: the deliveries whose last send
did not get into the log. The channels of a rule are a set, so a rule that lists
one channel twice over, whose two retry jobs would be one member of the ZSET, is
not modelled.

### RetryBuffer

A batch goes through two attempts to insert and a counter, or through `Push` and
`TrimAfterPush`, the two commands of a pipeline that is no transaction, and, when
either reports an error, `CountDropped`. The drain is `PopBatches`, `Unreadable`
and `Discard` for what does not parse, `Replay`, then `CountReplayed` or
`Requeue`. The list keeps its head first, as LPUSH and RPOP see it, so trimming
and requeueing are what the commands do to it. An insert, a push and a pop may
take effect and report an error; every count is a command of its own that may
fail unnoticed. `lost`, `unanswered`, `unheard` and `untrimmed` are history: they
name the batches for which the code itself gives up a promise, so that the
properties can demand it of all others. Task and worker batches have a list
each; one is modelled. `Earlier` is the order in which a broker's consumer takes
its batches. The counters `events_received` and `insert_retries` are not
modelled, nor that the Redis client may send a command again by itself.

### BrokerConnections

A handler is the sequence of its awaits and its calls to the map: `create` and
`start` end in `StopOld`, `Spawn`, `Insert`, the three steps of
`BrokerConnectionManager::start`; `stop` is `Deactivate`, `StopCurrent`,
`MarkDisconnected`; `delete` is `DeleteStop`, then `DeleteRow` or, when the
DELETE fails or matches no row of the request's organisation, `KeepRow`. A write
of the row may fail, or be carried out and not heard of. A consumer connects
(not looking at its token), reports, runs until it is cancelled or its stream
closes, flushes, reports, and goes back to the supervisor, which restarts it
unless it was cancelled. The map is keyed by broker, so one broker is modelled.
`config` says what a task will find: a broker that can be consumed from, a URL
that does not decrypt (the task reports it and never enters the map), or a type
nobody consumes. Two variables are history: `torn`, whether two requests were in
progress at once since the process started, and `stranded`, whether row and map
were parted by a request or a start that ended between them, and no later one
made up for it.

### Ingest and LiveFeed

`Receive` is `process_pubsub_payload`, `route_parsed_event` and
`drain_list_queues`: what parses goes to the batch of its kind. A full batch, the
timer or a stop begins a `job`, which the consumer finishes before it looks at
the broker again: for tasks, look names up, cache those known, hand the rows to
the insert, broadcast; for workers, store sampled heartbeats, then update Redis
for each worker with its newest event, command by command, and broadcast. Several consumers of a tenant run side by
side. `names`, `live` are the Redis keys; keys expire by actions of their own.
`told`, `owed`, `word`, `spoilt` are history: which names must be found, and what
an update that nobody interfered with said.

A WebSocket is one task whose `select!` branches are actions: `Subscribe`,
`Unsubscribe`, `Recv`, `RecvLagged`, `Flush`, `Drop`. `sent` is the channel, and
`pos` the socket's place in it. `Flush` is the timer's branch and `SendGathered`
what it sends. Four variables are history: `eventFrames` and `taskFrames` what the
client was sent, of each kind in order, with the number of tasks announced so far;
`othersWanted` and `tasksWanted` the events taken that it was subscribed to.

### EventStore, TaskQueries, Dashboards, AlertConditions

Tasks of the application run outside this code (`Emit`) and put one event per
step on the `wire`, a step of a task once in a tick (`Unreported`); events of the
first steps only carry name, queue, parent, root, group and chord (`Carried`).
Whatever begins with `task-` is taken in: the types the code knows, rejected ones
among them, and any other (`task-other`), which it shows as pending.
`Lives` says what a task may be, `AlertCondition` what a condition.
`InsertTaskEvents` takes any of the events on the wire, in any order, and adds
what the two materialized views make of that insert. An insert that is carried
out and not heard of is made again (`Again`): its rows are stored twice, told
apart by `try`, which no query reads. `RetryTask` and `RevokeTask` are the
requests of `routes/tasks.rs`: a retry publishes a copy whose parent is the task,
and stores an event for it or, when the reply is lost, none.

A client that pages keeps a cursor in `pager`; `NextPage` is one request. The
list of events shows the types of `TASK_EVENT_TYPES_IN`, the summary the states of
`TASK_STATES_IN` (`InScope`). A breakdown ends at its limit, and which of several
groups of one size it then shows is left open (`TopGroups`).
Everything else in these modules is an operator on `rows`, `parts` and `clock`,
one per query: `RetryChain` (climb to the first, then down level by level),
`ParentEdges`, `GroupEdges`, `ChordEdges`, `FallbackEdges` (`build_dag`),
`Overview`, `Against`, `TaskNameStats`, `FailureGroups` and the others, and
`Met`, which is `context_for` followed by `evaluate_condition` with a set of
reads that fail. A quotient or a root is compared by cross-multiplying and
squaring; scores are exact where the code uses floating point.

### Sessions

A person is one e-mail address with a user row in each organisation at most.
Every handler is the sequence of its statements: `Refresh`, `FindUser`,
`IssueSession`, `RevokeOld`, for instance, are a refresh. It may end after any of
them (`Drop`). `ticket` holds the links and invitations, `tokens` the refresh
tokens in order of insertion, each with the one it replaced. `grants`, `late`,
`raced`, `toMember` are history. `ImplementsTickets` is a refinement: every step
is, for `ticket` and `grants`, a step of `SingleUseTicket` or a stutter.

### AccessRules and Retention

`BySession` believes the claims of a token; `ByKey`, `FindCreator`, `CapScopes`
are the three lookups of a key. What comes out is `req[q].perms`, and a handler
begins by asking for one (`Allowed`). `init_system_roles` is the table of
`rbac.rs`. A removal deactivates the row and leaves tokens and keys alone.

A save of retention is `SaveRetention` and three times `Upsert`; `SaveFails` ends
it in between. The sweep reads tenants one at a time and then alters
`task_events` and `worker_events`. `focus` says which of the two changes in a
behaviour: they share the permission check and nothing else.

### Integrations

A flow is known by its nonce: `Connect`, `Callback` (the check), `Exchange` with
the provider, and a save. A row has an id, and a generation, new with every token
saved in it; `revoked` are the rows whose status says so. `Deliver`, `Sent` and
`MarkRevoked` are a delivery as far as it concerns them: a provider that says the
token is dead gets the row marked and its list cleared. The channel picker is `SlackChannels`, `ReadCache`, `TryLock`,
`FetchAll`, `StoreList`, `Unlock`, or `Wait`. `exchanges`, `unchecked`,
`expiries`, `tainted` are history: they count what the code lets pass.

## Runs

Each run is a `.cfg` of the same name. A passing run ends with no error; a
violation run shows by a counterexample that the code does not do what a line of
its documentation or comments says (`PROJECT.json`, `findings`, quotes it).

| Run | Asks |
|---|---|
| `alerts_lifecycle` | one open incident, causes of closing, cooldown, silences and the contract, with writes failing and restarts |
| `alerts_settle` | liveness: clear and disabled rules end closed, firing rules end open, after any two faults, failing reads included |
| `retry_deliveries` | budget, uniqueness, log, no forgotten retry, how far over its cap two tasks take the queue; liveness: every retry is sent or given up |
| `buffer_batches` | duplicates, counters, losses, length of the list; liveness: the list empties once ClickHouse stays up |
| `broker_requests` | two requests at once: what holds while requests come one after the other, and what holds however they overlap; liveness: a cancelled consumer ends, an active broker is consumed from again and again |
| `sessions_lifecycle` | two requests of one person: a refresh leaves a session, a withdrawal holds, links and invitations are good once |
| `slack_channels` | three requests: how many enumerate, how often a flow is exchanged, how old a cached list is, each explained by the failures that happened |
| `live_feed` | two consumers and a socket: names and worker state against the events, frames and counts against the events taken; liveness: what is gathered is sent |
| `task_queries` | all orders and batches of three events: pages, chains, graphs, counts, and conditions with any set of failing reads |
| `team_access` | two people, a key and two requests: permissions, removals, the last manager; liveness: the tables come to keep the shortest retention |
| `alerts_rules_unread` | violation: a failing read of the rules closes everything |
| `workflow_failed_step` | violation: a step that failed is shown as still running |

### Bounds

- *Names.* One rule is enough for what is kept per rule; that rules do not
  disturb one another within a pass is part of what the theorems say for any set
  of rules. Two channels, one with a floor, tell routed severities apart. Three
  deliveries and two tasks are what it takes to race for a queue of one. Four
  batches of two brokers give an order, a requeue, a younger batch, a full list
  and a full hand. Two requests make every overlap of two handlers of a broker,
  of a person or of a team; three make one hold the channel list's lock, one wait
  and one reconnect. Two consumers of a tenant race for its names and workers.
- *Events.* Three events of three tasks make a chain of three, siblings, a group
  with its callback, two pages and a baseline with something to compare it to.
  `Origins` names the applications looked at: a task retried by hand, a chord
  whose first member hangs on itself, and two tasks about to finish beside one
  that has. Four ticks of two to a minute are two buckets, and rows of the same
  tick. A page holds one row, so that every boundary is met.
- *Answers.* `retry_deliveries` tries accepted, client error and server error on
  three kinds of sender, which yield every class of `SendResult` that
  `is_retryable` tells apart but 429, which it treats as 5xx.
- *Limits.* Queues, batches, channels and lists hold one or two where the code
  has hundreds and thousands, so that full, overfull and partial cases happen.
  Breakdowns show one task name (`TaskNameLimit`, in the code 100) and one or two
  errors (`FailureLimits`, in the code 1 to 200). `CLEAR_STREAK_TO_RESOLVE` and
  `MAX_DELIVERY_ATTEMPTS` keep the values of the code; sample minima are one, so
  that a statistic of a few rows counts.
- *Time.* Ages saturate at `MaxAge`, at which nothing throttles any more. Expiry
  of tokens, keys, links, locks and cache entries may come at any time.
- *Faults.* `Faults` or `MaxFaults` of a run say which kinds may happen and how
  many: one or two, the same or different. In `Sessions` any request may end at
  any step.
- *Counters.* `MaxTokens`, `MaxGen`, `MaxMessages`, `MaxAlerts`, `MaxCommands`,
  `MaxEvents` (rows and events on the wire), `MaxSaves` bound behaviours. The
  two refresh tokens of `sessions_lifecycle` are one and its successor, or those of
  two sign-ins; where two refreshes have read one token only one of them stores a
  successor there, and the second successor, as any longer chain, is left to the
  theorems. Two generations are an old and a new token.

Symmetry is used in `sessions_lifecycle` (requests, invitations) and
`slack_channels`, which check no liveness.

The deadlock check is off where behaviours end because a bound is reached:
`retry_deliveries`, `sessions_lifecycle`, `slack_channels`, `live_feed`,
`task_queries`, `team_access`. Every other instance can always take a step.

### Fairness

Only what the runtime provides is assumed: weak fairness of the evaluator, of
the drains and of each consumer and handler (Tokio keeps polling a task that can
go on), of the clock, of a retry's coming due, of the socket's timer (an interval
that is always ready again, in a `select!` that picks among the ready), and of
the hourly retention sweep. Nothing is assumed of users, metrics, failures,
ClickHouse, brokers' streams or clients. `BrokerConnections` adds strong fairness
of `Connect`: the supervisor tries without end, and the property is about a
broker that can be reached, so one of infinitely many attempts succeeds.

## What the properties leave out, and what happens there

Some promises hold only without a certain step of the code. The property then
names that step, in a history variable or in the faults its run allows; and this
is what the code does when it happens, and what it does in places where a
document says otherwise.

Alerts:

- A failing read of the open incidents reads as none (`api/src/main.rs:398`); a
  rule that keeps firing past its cooldown then gets a second open row and a
  second notification. `alerts_lifecycle` leaves this failure out,
  `alerts_settle` does not: the two rows are closed together.
- A failing read of the silences sends at once what the silence would hold.
- An incident opened in a silence is never notified, also when the silence ends:
  the next pass finds it open already.
- `throttle.cleanup` forgets after an hour (`main.rs:657`) while no handler
  bounds `cooldown_secs`, so a longer cooldown is cut short:
  `CooldownSeparatesIncidents` promises the lesser of the two, and the cooldown of
  `alerts_lifecycle` is a tick longer than the horizon.
- A resolve notice is filtered by the severity its rule has by then
  (`main.rs:618`), where the comment above says the incident's severity.
- A client error that a sender reports without its status counts as transient and
  is sent three times (`DeliveryOutcome`).
- Retries are sent without asking for silences, and one may arrive after the
  resolve notice of its incident (`api/src/alert_dispatch.rs:260`).
- Two tasks can pass the check of `MAX_DELIVERY_RETRY_LEN` together
  (`db/src/redis/cache.rs:320`); `TypeOK` allows one job more than the cap.
- A half-recorded incident (`db/src/postgres/alert_rules.rs:122`) has its failure
  in the log and no retry.
- The delivery log has an entry per `delivery_key`: of channels that share a key
  the last one written stays, and one that was accepted can hide another that
  never was. `LogTellsSends` says what remains true of such an entry.
- `alert_context.rs` says a failing read never meets a condition; one does. When
  the time a worker was last seen cannot be read (`alert_context.rs:236-256`) it
  counts as never, and a worker inside its grace period as offline. `FailsClosed`
  is about every other read.
- The throughput condition takes the buckets that begin inside a window that ends
  now (`aggregations.rs:362-380`): the one the window begins in is dropped, so the
  window holds up to a minute less.

Ingestion and brokers:

- Batches trimmed off a full list, popped with no reply, refused when put back or
  in the drain's hands at a restart are lost and counted nowhere, and so are those
  dropped while Redis refuses the count (`pipeline.rs:253`): `lost`.
- A push whose LTRIM fails leaves the list longer by one batch until the next
  trim, and the batch, though buffered, is counted as dropped: `untrimmed`,
  `unheard`.
- A batch put back by the drain waits behind younger ones (`cache.rs:384`).
- A list that `drain_list_queues` reads loses a message that does not parse
  without counting it.
- Two overlapping starts leave two consumers, of which the map knows one; a start
  that overlaps a delete or a stop leaves a consumer of a deleted or stopped
  broker (`api/src/routes/brokers.rs:133`): `torn`.
- `delete_broker` stops the consumer before it knows of a row
  (`api/src/routes/brokers.rs:112`), and a DELETE that matches no row of the
  request's organisation succeeds (`broker_configs.rs:94`): the broker stays
  active without a consumer. So it does when the DELETE fails, when the INSERT or
  UPDATE of a create or start is carried out and the request does not hear of it,
  or when a starting process cannot list its brokers (`manager.rs:148`); and a
  stop whose UPDATE is not heard of leaves an inactive broker its consumer. The
  next start, stop, delete or restart that gets through makes up for it: until
  then, `stranded`.
- A consumer that was stopped reports `disconnected` when it is done, also over
  the `connected` of its successor (`redis_consumer.rs:236`), and the supervisor
  retries a broker in `error` though `docs/broker-configuration.md` says it is
  not retried automatically.
- While two consumers update one worker at the same time its state key and the
  online set may disagree, until its next event.

Queries:

- A batch whose first insert was carried out and not heard of is stored twice
  (`pipeline.rs:208`), and its events are counted twice by every page.
- A rejected task, and an event of a type the code does not know, is in the
  summary and in a broker's total but not in the list of events nor in its count
  (`task_events.rs:69-71`); the latter is shown as `PENDING`
  (`event_processor.rs:90`), and so is its task if it is the newest event.
- The breakdowns by name and by error end at their limit and leave out events
  that carry no name and failures with no exception, so they may add up to less
  than the totals beside them.
- A list skips rows as old as the last one of a page (`task_events.rs:223`,
  `tasks.rs:374`).
- Through the pages of the summary a task may be shown again with an older state,
  and the total counts what its filter would not show
  (`aggregations.rs:657-661`); a state filter finds a task by a state it has left.
- `?state=` with unknown words only is no filter.
- `get_workflow_tasks` finds a failed step by its early events
  (`workflow_failed_step`).
- `build_dag` reports as root the first task of its input, the one whose newest
  row is oldest; a task that is its own parent gets an edge to itself.
- A retry chain holds what hangs on the chain by name, so siblings of a first
  task that are not stored yet are not in it.
- Columns `queued_at` and `started_at` are never written, and the view's
  `max_runtime` is a sum (`schema.rs:83`), neither of which anything here reads.
- Events that end a task carry no queue, so the queue view counts completions and
  failures under the empty name (as the test at `aggregations.rs:998-1010` does).
- A retry or revocation goes to any active broker of the tenant; when the reply
  to a publish is lost, the task runs and no event is stored for it.

People and settings:

- Two refreshes with one token at once both succeed (`auth.rs:316`), where
  `docs/architecture.md` and the changelog call the token single-use.
- A sign-out or password reset is overtaken by a refresh or sign-in that had read
  its rows before: `raced`.
- Two registrations at the first start may both find no tenant, and both found
  one. Where public signup is off, a first registration that fails between tenant
  and user (`auth.rs:169-188`) leaves a tenant, and every later one is refused.
- An invitation is used up before the user is inserted, and lost if that
  conflicts; a removed member's row stays, so an invitation cannot bring them
  back.
- Two admins can remove each other within the fifteen minutes of their tokens and
  leave an organisation nobody manages: `LastManagerStays` says that this is the
  only way.
- A Redis that does not answer lets a callback pass its nonce check, as the
  comment there says (`oauth_slack.rs:138-150`). A nonce that could not be stored
  is, once Redis answers again, refused as used or expired, where the comment on
  storing it (line 66) says the callback falls back to the signature and cookie.
- A delivery that began with an old token and is told that it is dead marks the row
  revoked after a reconnection has saved a new one (`alert_dispatch.rs:153-162`
  goes by id), and deliveries are refused until somebody reconnects again.
- Two saves of the notification settings write back what each read; a password
  saved in between is lost (the comment at `tenants.rs:372` says it is kept).
- A save of retention may stop after one or two of its rows. The sweep looks at
  the first thousand tenants; a tenant whose rows cannot be read lengthens the
  TTL until the next sweep; `alert_history` is saved and never enforced. The page
  shows other defaults than are applied, and `docs/sizing.md` names a third set.

## Proofs

TLAPS checks these for all constants that satisfy the modules' assumptions.

| Theorem | Says | Needs |
|---|---|---|
| `TypeCorrect` | `TypeOK` of `AlertIncidents` | |
| `OneIncidentPerRule` | `OneOpenIncident` | reads of open incidents do not fail |
| `CooldownHolds` | `CooldownSeparatesIncidents` | |
| `SilencesHold` | `SilenceHoldsNotifications` | reads of silences do not fail |
| `IncidentsCloseForCause` | `ClosedForCause` | reads of rules do not fail |
| `EvaluatorKeepsContract` | `ImplementsContract` | reads of rules do not fail |
| `PermissionsAreHeld` | `SettingsTypeOK`, with it `NoMoreThanThePerson` | |
| `RemovalsAreFinal` | `RemovalIsFinal` | |
| `LastManagerGoesByTheRemoved` | `LastManagerStays` | |
| `LockIsHeld` | `TypeOK` of `Integrations` | |
| `NoncesAreSpentOnce` | `NonceIsSingleUse` | |
| `CachedListsAreCurrent` | `ListIsCurrent` | |
| `EntriesAreUncancelled` | `TypeOK` of `BrokerConnections` | |
| `ConsumersTakeTurns` | `OneConsumerInTurn` | |
| `ActiveIsConsumed` | `ConsumerIffActive` | |
| `RestIsShown` | `RestIsNotConnected` | |
| `SessionsAreTyped` | `TypeOK` of `Sessions` | |
| `RefreshLeavesASession` | `RotationKeepsASession` | |
| `WithdrawalIsOnlyOutrun` | `WithdrawalHolds` | |
| `TicketsAreSingleUse` | `ImplementsTickets` | |
| `ListIsBounded` | `TypeOK` of `RetryBuffer` | |
| `CopiesAreExplained` | `StoredOnce` | |
| `BatchesAreAccounted` | `EveryBatchAccounted` | |
| `QueueIsCapped` | `TypeOK` of `DeliveryRetry` | |
| `RetriesKeepTheBudget` | `RetriesWithinBudget` | |
| `LogIsHonest` | `LogTellsSends` | |
| `RetriesAreNotForgotten` | `RetryNotForgotten` | |
| `IngestionIsTrue` | `IngestIsTrue`, which is `NamesStick` and `StatusFollowsWord` | |
| `FeedIsComplete` | `FeedAddsUp`, with `LatestIsNewest` in it | |
| `StoreTypeCorrect` | `RowsTypeOK` of `TaskQueries` | |
| `PagesCoverTheList` | `PagesCover` | |
| `ViewsSumTheRows` | the views hold what they would of all rows at once | |
| `NumbersAgree` | `DashboardsAgree` | |
| `AlertsFailClosed` | `FailsClosed` | |
| `ClimbIsALineage` | the upward half of a retry chain, for any rows | |

Theorems with nothing in the last column have the module's assumptions on its
constants only; failures, restarts and overlaps are in the models, and what a
property excuses for them it names. Every hypothesis is necessary: without it the
property is broken in the way the previous section describes (for the rules,
`alerts_rules_unread` shows it).

The evaluator:

- *Type correctness* needs that while a rule's incident is being opened or
  resolved, `dbRules` lists the rule: otherwise the new row has no severity. That
  a streak never exceeds what completes it, nor outlives the incident, is part of
  the types and is what an evaluation between two incidents relies on.
- *One incident.* "At most one row" says nothing of the time between the
  snapshot and the insert. The invariant adds that a rule with an open row is in
  `openAlerts` from the snapshot on, unless this pass already dealt with it:
  rows appear only by the pass's own `RecordFired`, once per rule and pass.
- *Cooldown.* `age` and `sinceFired` differ only where cleanup forgot, and there
  `sinceFired` is at least `CleanupAge`, so "not throttled" gives the separation.
- *Silences.* From `LoadSilences` on, a covered rule is silenced in the snapshot;
  hence nothing is pending for a covered `cur`.
- *Causes.* The streak is a lower bound that restarts only lower: `streak <=
  clearRun`. A rule open at the snapshot and absent from `dbRules` is in
  `retired`. So both places that close a row do so for cause.
- *Refinement.* Under the mapping `incident`, `clears`, `withdrawn`, `deleted`
  every action is a step of `IncidentContract` or a stutter; the previous
  invariants supply the guards of `Open`, `Resolve` and `CloseWithdrawn`.

Access and retention:

- *Permissions.* What a request holds is compared with what its person's role is
  now, so the invariant adds where it came from (`RoleInv`): a token tells a role
  its member still has, since a role once given stays; a key in use has been
  made, and its scopes do not change; who has a role has joined.
- *Composition.* `RetentionKeepsTeam` shows that every step of `Retention` is a
  step of `TeamSpec` or a stutter for the variables of the team (saving retention
  is a request that ends), so what is proved of `AccessRules` alone holds of
  both.
- *Removal.* A member out has no token, no sign-in under way and no request past
  the lookup of its creator; each action is shown not to make one.
- *Last manager.* Only `RemoveMember` takes a manager away (`ManagerStep`). Its
  requester was allowed to, so has a role that manages and is not the one
  removed; if no manager is left, the requester is not active.

Integrations:

- *Nonce.* While a nonce is stored, every request that passed did so unchecked;
  taking the nonce away is what one more exchange is paid with.
- *Lock.* The enumerators of an integration number at most one for a held lock
  and one for each expiry. Releasing takes the releaser out of the set and at
  most the lock out of the bound, whoever set it; so the bound survives the
  unchecked release.
- *List.* `ListIsCurrent` is inductive with the types, given that an absent row
  has no generation: a new token goes on to clear the list of its row's id, and a
  list stored late is marked by comparing the row at that moment. A delivery marks
  a row that exists, since it began with its id.

Broker connections. The properties speak of times when no two requests of a
broker overlapped (`~torn`), and of row and consumer while nothing has parted
them (`~stranded`); the invariant has to follow one request through its
steps (`TurnInv`):

- `Reached`: a live consumer is the map's entry or the task in the hands of the
  request that spawned it; with one request at a time (`Solo`) that makes one.
- `Progress` says what a request has brought about when it is at a given step:
  before `spawn` and `mark` the map is empty, at `mark` nobody is live. `Agreement`
  of row and consumer then holds whenever no request has changed anything yet and
  the last that did was not cut short.
- Whatever overlaps, a task about to be inserted is nobody else's (`Distinct`), so
  it was not told to stop. And only a consumer told to stop, or with a
  configuration that is rejected, ends.
- *Status.* While no write failed, a live or flushing task stands behind
  "connected" (`StatusInv`): a task's last write is never that.

Sessions:

- *Rotation.* A request that is to revoke the token it refreshed has stored the
  successor (`Warranted`). Successors point back in the table (`Lineage`), so the
  rows a later request revokes cannot take the successor away.
- *Withdrawal.* Unless access was lost on the way (`late`), a request past its
  look-up is for an organisation the person is a member of. Every action that
  takes access away marks the requests that are past it.
- *Refinement.* A ticket not used has granted nothing; one that is used is held
  by one request at most, until it has granted; one that is being sent is in no
  other hands (`TicketInv`). Claiming is one statement in the code, and this is
  where the proof uses it: two requests that both read an open ticket are
  told apart by the update alone. Every step is then one of `SingleUseTicket` for
  one ticket, or of nothing for all.

Retry buffer. The list and the drain's hand have no batch twice and none in
common (`Placed`); lemmas on sequences without repetitions say that popping from
the right, putting back and removing a batch keep this. Then, per batch:

- *Length.* A push adds one to the list and to the batches that wait for a trim, a
  trim that fails leaves its batch among them, and one that is carried out leaves
  the list within its cap, whatever the drain did in between.
- *Copies.* While it is still to be inserted, its copies in ClickHouse are those
  nobody heard of (`CopiesInv`), so one more insert adds one at most.
- *Accounts.* Nothing is counted of a batch before its push or its insert, nor of
  one that is held, but the drop that a push not heard of is counted as
  (`CountsInv`). A batch the drain has popped, replayed and counted while its own
  trim is still to come is why the counters are bounded and not determined.

Delivery retries. The evaluator and the drain share the queue with no lock:

- *Cap.* A task between its ZCARD and its ZADD has a place reserved in the bound
  (`Capped`). Both tasks may have one at once, hence the cap and one more; that
  each has one at most is what keeps it from being more.
- *Budget.* A delivery has one job, in one place, but that the drain's batch is
  queued until it is removed (`Placed`), and the job knows how many sends came
  before (`Counted`); what the evaluator has not sent was never sent (`Opening`).
- *Log.* A second invariant, `LogInv`, proved from the first: while an incident is
  sent, every key sent to has an entry that tells one of its sends (`Gathered`),
  so the row is inserted with true entries; after that an entry changes only with
  a send of its key, which is to be logged next or goes into `unlogged`. That "ok"
  was accepted needs what the last send reported (`Honest`).
- *Not forgotten.* `RetryNotForgotten` is inductive together with these: a job
  leaves its place only for another, for the log, or into `dropped`.

Ingestion:

- *Names.* What a consumer cached and has not expired is in the cache (`Cached`),
  so what the lookup owes is found; and no event is without an owed name between
  the lookup and the insert (`Filled`). `CacheNames` of another consumer may come
  in between and only adds.
- *Workers.* An update that nobody disturbed has brought about what its commands
  so far say (`Partway`). Another consumer's command on the same worker marks it
  disturbed, one on another worker leaves its keys alone, and a state does not
  expire during an update. So the last command can promise what `word` records.
- *Feed.* `FeedAddsUp` is inductive with the types of what it is about, given that
  the sums of the messages never go back and never pass the tasks wanted
  (`TasksAddUp`). A task that is gathered leaves the last few of every message sent
  as they were (`FinalStays`), and what the capped queue drops and takes is what
  moves "the last few" by one (`FinalKept`).
- *Newest event.* `latest_per_worker` is a fold; that it finds the first of the
  youngest is shown by least counterexample: were there a first event after which
  it does not, the step before would contradict `FoundNext`.

The store and what is read from it. `QueriesInv` is the invariant of all of them:

- `LifeInv`, `EventsInv`: a task is what `Lives` says, an event is one of a task
  that exists; a task whose revocation is out takes no further step, so that it is
  out once. Of an event inserted more than once every earlier try is a row
  (`Tried`), and the next is on the wire or in one row, never both; so trying again
  is new (`AgainIsNew`). The guard `Unreported` is needed: a task retried and
  received again within one tick would put out an event that cannot be told from
  the earlier one.
- *Views.* `ViewsInv`: the parts of the views are those of all rows at once. An
  insert adds the parts of its batch to those of the rows before, key by key; a
  count of a disjoint union is the sum of the counts.
- *Pages.* `PagerInv`: what a client is owed still matches, and is older than the
  cursor. A page takes the youngest such rows, so what it does not show or settle
  is older than the cut; and the last page shows all that there is.
- *Numbers.* Each number is the size of a set of rows, and each breakdown a sum
  over the values of a field. `SumOfGroups` says that the sizes of the groups add
  up to the size of the whole, `SumByAny` that a sum does not depend on the order
  of its terms. With the views that gives the totals (`ColumnTotal`); the two
  windows of the property differ by the minute the view rounds to
  (`MinutesOfWindow`). A breakdown that shows fewer groups than its limit shows
  all of them, and any other no more than there is (`TopAddsUp`).
- *Conditions.* One lemma per condition: if it is met, there is cause. A read that
  failed is taken for something that cannot meet it; and without the cause (no
  failure, nothing done, no run slower than another) the statistic
  compared is zero, too small a sample or on the wrong side of its threshold.
- *Chain.* After each round of the loop the chain is a lineage, and if it is
  shorter than the rounds there is nothing above it (`Ascent`).

The library's induction theorems take an operator the provers cannot instantiate.
Where a proof needs an induction it is made by hand, from the well-foundedness of
the numbers or of the finite sets: the least counterexample (`LeastNumber`,
`LeastSet`) is shown not to be one. So the recursive functions of the models
(`OfKind`, `Latest`, `Climb`) and the folds behind sums, maxima and minima are
covered.

What is only model-checked, and why:

- Liveness, which needs fairness and ENABLED: `IncidentsFollowConditions`,
  `RetriesSettle`, `BufferDrains`, `ConsumersStopAndServe`, `FeedFlushes`,
  `RetentionIsEnforced`.
- `LineageIsTrue` beyond its upward half. That the chain is the whole lineage is
  true only where `MAX_DEPTH` exceeds the longest lineage, and that a graph has no
  cycle only of applications whose tasks do not name each other as parents; the
  order within a level is that of a sort by times that may be equal, of which the
  library's definition says nothing.

## Not modelled, and why

- *Parsing and rendering.* Celery payloads (`kombu.rs`, `pyrepr.rs`), AMQP and
  Redis protocol, bodies and templates of notifications, averages, quantiles,
  statistics per worker, positions in a graph, CSV and Prometheus pages: conversions with no order of
  steps to get wrong. A payload that does not parse is an event the models drop.
- *Commands to workers.* Pool and shutdown commands, purges and queue statistics
  are messages to the user's broker that leave no state in this server.
- *Notification settings.* One row that is read, merged and written back; what
  two saves at once do is said above.
- *Products.* `AlertIncidents` with `DeliveryRetry`, and `Ingest` with
  `RetryBuffer`, are checked apart: their products are out of TLC's reach, and
  what they share is an interface named on both sides (a recorded failure; rows
  handed to the insert).
- *Migrations* run once at start. *The web application* presents what the API
  serves. *Deployment* matters here only for there being one process, which is
  assumed throughout (see *Inventory*).

Two divergences concern parts left out: the changelog's third backoff of fifteen
minutes is never used, since the third attempt is the last
(`alerting/src/recovery.rs:22`), and PagerDuty is told to trigger for a resolve
notice too (`alerting/src/channels/pagerduty.rs:49`).
