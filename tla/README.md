# Verification of the URL shortener and its click pipeline

Three Go services and the infrastructure between them: `urlshortener-service`
creates short links, `redirect-service` sends visitors to their targets and
publishes a click event for each, `analytics-service` consumes the events and
stores them. This directory holds TLA+ specifications of their behaviour, the TLC
configurations that check them and TLAPS proofs about them. Paths below are
relative to the repository (`services/...` is `src/services/...` in
`PROJECT.json`).

## 1. Inventory

| Component | State it keeps | Operations | Talks to |
|---|---|---|---|
| Click publisher (`redirect-service/internal/publishers`) | bounded channel `events`, `done`, AMQP connection and channel, `nextRetry`, counters `dropped`, `published` | `Publish`, `Start`, `Close`, `run`, `send`, `connect`, `disconnect` | request handlers (channel), RabbitMQ (socket), Prometheus (counters read at scrape) |
| Click consumer (`analytics-service/internal/consumers`) | `done`; per session: deliveries channel, `events` batch, `last` delivery, ticker | `Start`, `Close`, `run`, `consume`, `declare`, `loop`, `flush` | RabbitMQ (deliver, ack, nack), click service |
| Click service and repository (`analytics-service/internal/services`, `repositories`) | `clicks` table | `InsertClickEventBatch`, `InsertBatch` (one pgx batch, one implicit transaction), `GetCodeAnalytics` | PostgreSQL |
| Link service, repository, handler (`urlshortener-service`) | `links` table with the unique index `links_code_uidx` | `POST /api/v1/links`, `GET /api/v1/links/:code` | PostgreSQL |
| Redirect handler, service, repository (`redirect-service`) | none | `GET /:code` | the same `links` table, click publisher |
| RabbitMQ (external) | exchange, queue, bindings, unacknowledged deliveries | routes, delivers under the prefetch limit, requeues | publisher, consumers |
| Server lifecycle (`cmd/api/main.go`, `internal/server`, `internal/handlers/health_handler.go`, three copies) | listeners, `draining` | start, readiness, drain, shutdown, deferred closes | Kubernetes |
| Configuration (`internal/config`, three variants) | what was loaded from the environment at start | `Load`, `validate`, `GetFields`, connection strings | everything at start; publisher and consumer agree on exchange and key only through it |
| Migrations (`cmd/migrate`, `platform/database/migrations`, two copies) | one version table per service, the tables themselves | `Run`: lock, mark dirty, SQL, clear | PostgreSQL, run by Kubernetes Jobs |
| Metrics and tracing (`internal/metrics`, three variants) | counters, gauges, histograms | `Instrument`, `QueryTracer`, pool metrics | every request and query |
| Recovery middleware, logger, `connect.go` | logger, pool | `Recovery`, `Init`, `Connect` | every request; start-up |
| Deployment (`deploy/`) | ConfigMaps, Secrets, Jobs, probes | apply, restart, probe, kill | all pods |
| Load test (`deploy/loadtest`) | | k6 scripts | the public endpoints |

What is hard here:

* **Interleavings.** The consumer's `select` races deliveries, the ticker, `done`
  and the end of the session; several replicas share the queue; handlers call
  `Publish` while the goroutine stops; create requests race for the same code.
* **Partial failure.** Insert and acknowledge are two systems without a common
  transaction; an insert can commit and report an error; an acknowledgement can
  go to a session that no longer exists.
* **Order and multiplicity.** `multiple=true` answers by tag for everything before
  it; malformed deliveries are acknowledged on their own in between.
* **Silent loss.** The publisher has no confirms, messages are transient, the
  exchange drops what no queue is bound for, the buffer is abandoned at `Close`.
* **Shutdown.** Drain, `Shutdown`, the deferred closes, the last flush and the pod's
  grace period follow each other while handlers still run.
* **Readiness.** Handlers, flush and ping compete for the connections, and what the
  ping says decides where the load goes.
* **Start-up in any order.** Jobs, database, broker and pods come up unordered; a pod
  keeps the environment it loaded while operators change it; an attempt to migrate
  can be killed half way; text that does not parse is replaced without a word.
* **Limits.** Buffer, batch and prefetch window interact: a prefetch window smaller
  than a batch leaves all flushing to the ticker.

What makes each component correct: the consumer never loses an event it could
store, and stores one twice only when something failed; the publisher accounts for
every click, in order, never publishing one twice, and never blocks a redirect;
a code belongs to one request for good, and what a client was told is true; a pod
that is taken down disturbs no client and closes nothing that is still in use; a
pod is out of rotation when it cannot serve because its database is gone, and not
because it is busy, and for good once it drains; a Job that reports success migrated its database; services that
are configured alike meet in the broker; and sound environments end in a system that
serves.

## 2. Modules

| Module | Models | Role |
|---|---|---|
| `ClickSink` | what queue, consumer and table promise together | abstract specification |
| `ClickConsumer` | `click_consumer.go`, with the queue, the table and process failures around it | implements `ClickSink` |
| `ClickConsumerProofs`, `ClickSinkProofs` | | theorems about `ClickConsumer`; its refinement of `ClickSink` and its duplicates |
| `ClickPublisher` | `click_publisher.go`, with the socket to the broker | component |
| `ClickPublisherProofs` | | theorems about `ClickPublisher` |
| `LinkDirectory` | what the two link services promise about codes | abstract specification |
| `ShortLinks` | link creation in `urlshortener-service`, lookups in both services, the `links` table | implements `LinkDirectory` |
| `ShortLinksProofs` | | theorems about `ShortLinks` |
| `ServiceLifecycle` | one pod of any service from start to kill: `main.go`, `root.go`, the readiness switch, deferred closes | component |
| `ServiceLifecycleProofs` | | theorems about `ServiceLifecycle` |
| `Serving` | one pod of any service while it serves: middlewares, handlers, the connection pool, the readiness ping | component |
| `ServingProofs` | | theorems about `Serving` |
| `ClickPipeline` | publisher, broker, consumers and table together | composition of `ClickPublisher` and `ClickConsumer` |
| `ClickPipelineProofs` | | theorems about `ClickPipeline` |
| `Configuration` | `config.go` and `logger.Init` of the three services | operators |
| `Startup` | environments, `cmd/migrate`, the start of `cmd/api`, the broker's bindings | component, uses `Configuration` |
| `StartupProofs` | | theorems about `Startup` |
| `MC...` | | constants for TLC |

### ClickConsumer

One `pc` per replica says where its only goroutine is: `dial` and `wait` are `run`
before and after `consume`, `loop` is the `select`, `insert` and `settle` are the
two halves of `flush` (the database call, then the answer to the broker), `return`
are the deferred closes. `leaving` marks the last flush of a session. The Go
channel is the set `inbox`, the Go slice the set `events`: a delivery carries its
tag, tags grow within a session, so the sets carry the order. `unacked`, `ready`,
`bound` and `lost` are RabbitMQ; `rows` counts the rows of the `clicks` table for
each event, which the real table, lacking an event id, cannot tell.

`Receive`, `Tick`, `SeeDone` and `SeeClosed` are the four cases of the `select`.
A dead session stays readable for a while (the library drops its buffer at an
arbitrary point), so `Receive` and `SeeClosed` compete on it, and a flush can run
on a dead session: its answer then changes nothing. `Insert` has three outcomes:
committed, rolled back, committed with the answer lost (time-out of
`flushTimeout` included). An acknowledgement that is lost with the session is the
behaviour in which the session dies just before it. What the broker learns late
(a half-open connection) only delays the requeueing, so the model requeues at
once. A crash in `insert` leaves the transaction committed or not.

Not in the model: a valid event that PostgreSQL always rejects would be requeued
for ever. The redirect-service cannot publish one (codes of links are seven
characters, `json.Marshal` repairs invalid UTF-8, header values have no NUL).

### ClickPublisher

Clicks are numbered by their call of `Publish`. `pc` is where the goroutine is:
`select`, the parts of `send` with `connect` between them, and `closing`, the
deferred `disconnect`. `Write` and `Count` are two steps, the write to the socket and
`published.Add(1)` after it: in between the broker, a consumer and the table can have a
click the counter has not (`Uncounted`). `channel` is `p.channel`, with the three states a non-nil
channel can be in: `up`, `broken` (the peer is gone and nobody knows, so writes
succeed) and `closed` (the library knows, so writes fail). `wire` is what was
written and not read, `received` what the exchange got. `backoff` says that
`time.Now()` is before `nextRetry`. `json.Marshal` of a `ClickEvent` cannot fail, so
lines 115-118 have no error branch here.

### ShortLinks

Each request is a handler of its own; a client that tries again is another
request. The insert is one step at the database, where the unique index decides.
`InsertFails` covers every other error, the row written or not. `Visit` is the
lookup of `redirect-service` and, reading the same row, `GET /api/v1/links/:code`.
No code in the repository writes `is_active` or reads `expires_at`, so neither is a
variable. `answers` remembers what visitors were told.

### ServiceLifecycle

`main` is where the main goroutine is: the steps of `run` up to `server.Run`, its
`select`, the stages of `shutdown`, and the two deferred closes in their reverse order.
Handlers, the consumer's flush and the readiness probe run beside it on a pool of
`MaxConns` connections. `now` counts ticks since SIGTERM, and `timer` is when the
present wait ends. The process is fast compared to a tick: time passes only where
`main` waits (`Waiting`). The assumptions on the constants are those of the
manifests: endpoints are updated before the drain is over, drain and
`SHUTDOWN_TIMEOUT` (5 s and 15 s) leave a rest of `terminationGracePeriodSeconds`
(30 s) that is as long as `flushTimeout`. `trouble` records the three ways out of an
orderly shutdown: a server that broke, SIGTERM before `NotifyContext`, handlers that
outlast the time-out. The connection of a ping is not counted here, keep-alive
connections and `WriteTimeout` are left out, a redirect-service without publisher
lives like the urlshortener-service.

### Serving

The same pod between start and end. A request goes through `Enter` and `Observe`,
`Leave` (the two halves of `Instrument`), the handler between them waits in `acquire`
and holds a connection in `query`; `Collision` is the loop of `CreateLink`. `Panic` is
the way out through `Instrument`'s deferred `Dec` and `Recovery`. A status is one of
three classes. `probe` is `Ready` waiting for a connection or for the ping's answer;
its outcome is at once what Kubernetes makes of it (the probe's failure threshold
only delays it). A database that is `down` refuses at once, one that is `hung` takes
queries and does not answer. One that is `up` can fail as well: a query (`QueryFails`), a
connection that has to be dialled (`AcquireFails`), and the ping, for which every error
but `DeadlineExceeded` is "database unreachable" (`PingFails`). `ProbePatience` says whether the probe's
`timeoutSeconds` exceed `readinessPingTimeout`, as in `deploy/k8s/azure`.

Not in the model: which callbacks of `QueryTracer` pgx makes, the latency histograms,
and requests for unknown routes, which `Instrument` counts like any other.

### ClickPipeline

`ClickConsumer`, extended by an instance of `ClickPublisher` whose variables `events`,
`pc`, `done` and `published` are called `buffer`, `sender`, `closing` and `counted` here.
Either half moves while the other stands still, but for two steps: a click read off the
publisher's wire arrives at the exchange (`ReadOffWire`), and a restart of the broker
breaks the connections of both (`RestartForBoth`). What a publisher that stopped left in its buffer counts as lost here
(`Stranded`). `PipelineAssumption` says that the
queue's messages are the numbers of the clicks and that none is malformed, `Publish`
marshalling every click itself.

### Configuration

An environment is a function of the variables that are set; `Load` gives a value to
every key a service reads. A number is an integer, text that is none is `Junk`, and a
`GetEnv...` operator falls back to the default for it, as `getEnvInt` and its siblings
do. `GoInt` is what `strconv.Atoi` accepts, up to the constant `MaxInt`; `Reaches` is a
connection string that leads to a database, `Connects` the start of a pool within
`DB_CONNECT_TIMEOUT`. `AbsoluteURL` and `Reachable` say which base URLs have a scheme and a host and
which databases answer. `RABBITMQ_URL`, the password, the HTTP time-outs, connection
lifetimes, the listen address and the build data are left out: no condition of the
model depends on them. `CONSUMER_PREFETCH` is the constant `Prefetch` of `ClickConsumer`.

### Startup

`environment` is what ConfigMap and Secret say now, `loaded` what each running pod
read when it started. A start that fails (`validate`, the log level, `Connect`) exits
and is repeated: a stutter. A pod of the analytics-service with a negative
`BATCH_SIZE` or a `FLUSH_INTERVAL` that is not positive starts, is ready, and panics
in the consumer's goroutine once it is connected: `Consume` has that outcome.
`declare` is one step, since its calls are idempotent and it is repeated until all
succeed. There is one pod per service and one broker, of which the bindings are kept;
they are durable, but no manifest gives the broker a volume (`BrokerReplaced`).

A session's end leaves queue and binding alone because `declare` asks for both durable and
not deleted automatically (`SessionEnds`; deleted automatically, `RoutedStaysRouted` fails).

A Job needs a database to reach but no pool (`Migrates`, without the connect time-out).
It goes through golang-migrate's steps on its own version table: mark dirty, SQL, clear
the mark. `JobStops` kills it in between; an attempt that meets a dirty version fails,
and the Job with it once `backoffLimit` is used up. golang-migrate's advisory lock is
the guard that keeps out a second Job on the same database and version table.
`LivenessPath` is the path of the manifest's liveness probe; `PodStops` is free when the
admin router has no such route.

## 3. Runs

Every run finishes within three minutes on two cores. Deadlock is not checked:
each model stops when its inputs and budgets are used up, which is its idle state.

| Run | Instance | Shows |
|---|---|---|
| `consumer_safety` | 2 replicas, 2 events and a malformed one, prefetch 3, batch 2, one fault, one failure, one `Close`; symmetry on replicas and events | type, no loss, answers cover the batch only and name a known tag, duplicates need faults; `ClickConsumer` implements `ClickSink` |
| `consumer_liveness` | 2 replicas, prefetch 1, batch 2, no symmetry | every event is stored, malformed ones leave the queue, `Close` returns |
| `publisher` | buffer 2, six clicks, two outages | type, accounting, order and at-most-once, reasons for dropping; the buffer drains, `Close` returns, stale channels are replaced |
| `links` | 3 requests, 2 codes, 3 attempts, one fault | truth of 201 and 503 and ownership of codes (`AnswersTrue`), orphans; `ShortLinks` implements `LinkDirectory`; every request is answered |
| `pipeline` | 2 clicks, buffer 1, one replica, no prefetch limit, batch 2, one outage, one fault, one failure, one `Close` | every click is explained from visitor to table, stranded ones included; the publisher's counter meets the table at every moment (`CounterMeetsTable`); what is written is stored while nothing breaks |
| `lifecycle` | 3 requests on 2 connections, drain 2, time-out 3, grace 7, propagation 1 | an orderly end, flushes before the pool closes, waits over in time, the pod stops by itself |
| `serving` | 2 requests on 1 connection, 2 attempts, one outage | exact gauge and counter (`MetricsExact`); a pod that drains, or whose database is down, leaves rotation for good; every request ends |
| `startup` | the environments of `docker-compose.yml`, one of eight edits, `MaxInt` 65535, one Job applied again, one fault, `BackoffLimit` 1 | a Job's success is true, publisher and consumer are wired together, routes last, sound environments end in a system that serves |
| `publisher_dropped`, `serving_docker`, `startup_traced`, `startup_docker` | expect a violation | see findings |

Bounds and why they are enough. Two replicas are the least that can hold the same
event after a redelivery, three requests on two codes the least that exhaust them,
a batch of two the least in which a multiple answer covers more than its own
delivery, a malformed event the least that puts a single acknowledgement between.
A prefetch window of three lets deliveries wait beyond a full batch; one of one,
below the batch size, never lets a batch fill. A pool of one makes handlers, flush
and ping compete for the same connection; one of two, with three requests, lets some
queries run while another waits for the pool during a shutdown. The ticks of
`lifecycle` keep the order of the manifests' seconds. The eight edits of
`startup` are one of each kind that the code tells apart: refused by `validate`,
refused by the logger, refused by the database, a panic later on, fallen back from,
accepted and without effect, changed on one side or on both sides of the broker, fatal to
a pod and not to its Job. `MaxInt` stands for the largest `int`: any value above the ports
and sizes will do, and one edit sets a number beyond it. One edit makes a running pod differ from its environment and from the other pods; one
fault kills a Job half way; `BackoffLimit` is three in the manifests, and one already
has both an attempt that is repeated and a last one. `MaxFaults`, `MaxFailures`,
`MaxCloses`, `MaxOutages`, `MaxEdits` and `MaxReruns` bound how often the environment
interferes, in the guards of those actions; the safety theorems below hold for every
value of them.

Fairness. The Go scheduler runs a runnable goroutine, a `select` chooses at random
among its ready cases (so `StopRun`, `Take` and `Stop`, which compete with another
case, get strong fairness), tickers and timers fire, database calls return by
`flushTimeout`, Kubernetes restarts what stopped, the broker delivers and reads
while connected, and heartbeats find a dead peer. Nothing is assumed of faults,
failures, `Close`, `Publish` or the success of a dial of the publisher. In
`ServiceLifecycle` queries return, time passes and probes end; `BackgroundStops`,
which the next flush can disable again and again, gets strong fairness as a branch
of a random `select`; SIGTERM, the kill and server errors may never come. In `Serving`
the pool serves its waiters in turn (strong fairness of `Handler` and `Probe`), and a
client does not wait for ever; the database may stay away for good. In `Startup`
Kubernetes restarts containers and retries Jobs, and the consumer dials again (weak
fairness of the starts, `Consume` and `JobStep`); edits, faults and Jobs applied again
owe nothing.

## 4. Proofs

All proofs are for arbitrary constants: any replicas, events, requests and codes,
any sizes and budgets, under the named assumption of each module.

* `ClickConsumerProofs`. `NoLoss` is not inductive: that the deliveries a multiple
  acknowledgement removes are stored follows only from the order of tags in batch,
  channel and broker. `IInv` adds, per replica, that an idle goroutine is clean
  (`IdleIsClean`), that tags are handed out in order and the channel holds those after
  `last` (`TagsOrdered`), that what the broker has outstanding is in the batch or in
  the channel (`OutstandingOf`), and that a batch holds valid events, inserted when
  the insert said so (`BatchOf`). `Invariance` proves `Spec => []IInv`, one lemma per
  action; `TypesConsumer`, `NeverLost`, `AnswersCoverTheBatch` and `AnswersAreKnown` follow.
* `ClickSinkProofs`. `CopiesInv` follows the copies of an event: whoever has it has it from
  the exchange (`Sourced`), the broker has it queued or delivered to one session, not both
  (`OneCopy`), and a session's batch and channel have it once (`HeldOnce`); a dead session may
  still hold what another was given. With it every step is a step of `ClickSink` or a
  stutter (`SinkImplemented`). `FewDuplicates` needs a sum: an event's rows, its place in
  the queue and the replicas that hold it unstored are at most one more than the
  faults (`Counted`); each step is checked for the one replica it changes (`CountedLocally`).
  Two more theorems use the same invariants: what left the queue never comes back
  (`SettledForGood`, by way of the refinement), and batch and channel stay within
  `BATCH_SIZE` and the prefetch limit (`BatchesAreBounded`; its invariant `Bounded` needs
  that the broker counts exactly what an open session holds, which is `HeldOnce`).
* `ClickPipelineProofs`. The consumer's half of each step is a step of `ClickConsumer`
  (`PipeStep`), so what is proved of it holds here (`PipelineInvariance`,
  `PipelineImplementsSink`), and the publisher's half is one of `ClickPublisher`
  (`PipelineImplementsPublisher`). `ClickConsumer` takes for granted that no event arrives
  twice; `ArrivalsAreNew` shows that of the publisher, so the guard of `Arrive` never holds
  `ReadOffWire` back. The publisher's half is one of five moves
  of a click; no click is in two places (`Apart`), and the counters are the cardinalities of
  what is gone and of what arrived (`Tally`). `ClicksExplained` and `CounterMeetsTheTable`
  follow: the counter's lower bound rests on every row having come through the exchange, its
  upper bound on the consumers losing nothing; the click between `Write` and `Count` is the
  one the two may differ by. `WrittenIsKept` is the safety half of `WrittenIsStored`:
  it adds that a wire loses clicks in outages only (`Connected`, `WireKept`) and that the
  broker has no copy of what it discarded (`Discarded`); then `NoLoss` leaves a click no
  place to go but queue and table.
* `ClickPublisherProofs`. `AccountingInv` is `TypeOK`, `Accounting`, `PublishedIsWritten`
  and `Holding`: the goroutine has a click in hand exactly while it works on one.
  `Accounting` alone is not inductive, because giving up a click must move one from
  the hand to the counter. `AccountsForAll`, `CountsWrites` and `TypesPublisher`
  follow. For the order, `LineOrdered` says of each part of the line from exchange to
  buffer that it is increasing and before the next, so that a click can move between
  parts; `OrderSurvives` joins them to `InOrder`. `ChannelInv` says when there is no channel
  and when nothing can be on the wire: the goroutine dials only without a channel, so a
  failed dial is no reason to drop a click of a working one (`DropsAreExplained`), only
  outages lose what was written (`OnlyOutagesLose`), and a goroutine that stopped leaves
  clicks in the buffer and nowhere else (`StrandedInBuffer`, which is what the finding
  of `publisher_dropped` comes to).
* `ShortLinksProofs`. `IInv` adds to the type invariant that a code has one row and a
  request writes one (`RowsUnique`), that the row is written by the last step of its
  request (`RowsFinal`), and what each status says of the table (`StatusTrue`).
  `TypesShortLinks`, `AnswersAreTrue`, `CodesAlwaysExclusive` and `RequestsWriteOnce`
  follow. `OrphansTakeFaults` counts the rows whose request ended without a 201 and finds
  each new one paid for by a fault. `DirectoryImplemented` proves the refinement of
  `LinkDirectory`: the mapped table has the target of the one row of each code
  (`TargetOfRow`), and a stored row assigns a free code (`StoredAssigns`).
* `ServiceLifecycleProofs`. `OrderlyShutdown` is not inductive: it depends on what came
  before. `IInv` adds that nothing is listed, probed or served before the servers run
  (`Unserved`), that each wait ends within its time and endpoints are updated within
  `Propagation` (`Timely`), that without trouble the pod accepts while it is listed and
  its handlers are done before what they use goes (`Quiet`), and that the pool is there
  before the goroutine starts and until it stopped (`Layered`). The proofs use the two
  inequalities of `LifecycleAssumption`, which are those of the manifests.
  `TypesLifecycle`, `ShutdownIsOrderly`, `FlushesHavePool` and `StopsAreTimely` follow.
* `ServingProofs`. The counters are cardinalities of sets of requests, so each step says
  which request enters or leaves which set (`QueryingMoves`, `InstrumentedMoves`,
  `ObservedStays`). `IInv` is `TypeOK`, the two equations and `Progress`: codes are left to
  try, a reply has a status, only ended requests have panicked. `PoolIsBounded` and
  `MetricsAreExact` follow. `DrainedStaysOut` is the safety half of `DrainUnlists`: the only
  probe that can list a draining pod is one that began before `Drain`.
* `StartupProofs`. `IInv` adds to the type invariant that a version is clean, and a Job past
  its SQL, only over tables that exist (`SchemaInv`, which needs that the two services'
  version tables differ, `OwnTable`), and that a session of the consumer is bound as its
  pod was configured (`BindingInv`). `SameTextLoadsAlike` rests on the defaults the two
  services share. `SuccessIsTrue`, `SetAlikeMeansWired` and `RoutesAreDurable` follow for
  any environments and edits. `Checked` says that what a pod runs with passed its
  checks, however its environment was edited since; with what `Load` makes of any text
  (`NumbersLoad`) it gives `RunningPodsAreUsable`: the pools, buffers, batch sizes and
  intervals of running pods are what the assumptions of `Serving`, `ServiceLifecycle`,
  `ClickPublisher` and `ClickConsumer` ask of their constants.

Only model-checked: liveness, which is out of the prover's reach (`EventuallyStored`,
`MalformedDrains`, both `CloseReturns`, `KeepsDraining`, `StaleChannelReplaced`,
`EveryRequestAnswered`, `WrittenIsStored`, `StopsByItself`, `EveryRequestEnds`, `DownUnlists`,
`DrainUnlists`, `ServesInTheEnd`), though of `MalformedDrains`, `WrittenIsStored` and
`DrainUnlists` what needs no fairness is proved (`SettledForGood`, `WrittenIsKept`,
`DrainedStaysOut`). Every other property of a passing run is a
theorem. Of the violated ones `DroppedReportsLost` has a proved counterpart that says how far
the code keeps the promise, `StrandedInBuffer`.

## 5. Findings

* `click_publisher.go:80` documents `Dropped` as reporting lost events. When `run` picks
  the closed `done` channel it returns at once; clicks still in the buffer are
  neither published nor counted (`publisher_dropped`).
* `health_handler.go:57` of each service answers "ready anyway" when the ping times out
  after `readinessPingTimeout`, two seconds. The probes in `deploy/k8s/docker` set no
  `timeoutSeconds`, so the kubelet waits for Kubernetes' default of one second: an
  exhausted pool does make the pod unready (`TimeoutsKeepListed` in `serving_docker`). The
  manifests in `deploy/k8s/azure` wait three seconds.
* `redirect-service/cmd/api/main.go:42` says a run "can be traced back to its exact
  configuration" by what each pod logs, and `config.go:262` that `GetFields` returns all
  fields.
  It leaves out the click mode, the buffer, everything about RabbitMQ, batch, interval,
  prefetch and the admin port (`startup_traced`). `CLICK_MODE=sync`, which `validate` accepts
  and `main` treats like `off`, is one of the settings a log does not show.
* `deploy/k8s/docker/06-shorten-service.yaml:71` explains its liveness probe as one that never
  touches a shared dependency; its path `/healthz` is no route of the admin router, so
  healthy pods are restarted again and again (`startup_docker`). The manifests in
  `deploy/k8s/azure` ask for `/livez`.

Two smaller observations without a run of their own: `clicks_published_total`, in its help
text the events successfully published, counts writes to the socket, so clicks that a
broken connection swallowed are in it (`CounterMeetsTable` has them as `lostOnWire`); a
reply of `Recovery` is in no counter of `Instrument` (`MetricsExact` excludes it).

## 6. Not modelled

* `expires_at`: it is stored and no code reads it, and nothing says when an expired link
  should stop, so there is no behaviour to check.
* Recovery from an accepted `BATCH_SIZE` or `FLUSH_INTERVAL` that panics: the panic is in
  `Startup` (`Consume`), but nothing says what should become of such a configuration, and
  `ServesInTheEnd` is about environments without one.
* `QueryTracer` and the histograms: which callbacks pgx makes is not in the repository, and
  no service reads them back.
* Logger output: encoders, fields and `Sync` have no effect on the services. Whether `Init`
  refuses its level is in `Configuration`.
* Deployment beyond environments, Jobs, probes, grace periods and restarts: resource limits,
  autoscaling, ingress and monitoring change no state of the services.
* The load test: its clients are the arbitrary requests of `ShortLinks`, `ClickPipeline` and
  `Serving`.
* In RabbitMQ: flow control, queue limits and access rights, which the services do not use.
* In the pool: connection lifetimes, `MinConns` and statistics; on the listeners: idle
  keep-alive connections and `WriteTimeout`.
