# Verification of gotoolkit

gotoolkit is a Go library of building blocks for services: a typed in-process
event bus, managed clients for RabbitMQ, NATS, Postgres, Memcached and Kafka,
and HTTP and gRPC middleware. This directory holds TLA+ specifications of its
concurrent parts, TLC configurations that check them on small instances, and
TLAPS proofs of their safety for every instance. Source paths are relative to the repository.

Run a model from this directory with `tlc -config X.cfg M.tla` and a proof
module with `tlapm M.tla`.

## Inventory

| Part | State | Operations | Interacts through | What is hard |
|---|---|---|---|---|
| Event bus topic (`gtk/event_bus.go`) | subscribers' channels, list of unsubscribe handles, one RWMutex, worker pools | Subscribe, unsubscribe, Publish, cancellation | locks, channels, sync.Once, the context; used by the RabbitMQ and NATS clients for their events | a blocked Publish holds the read lock; close against send; cancellation against Subscribe; waiting for workers |
| RabbitMQ client (`rabbitmq/rabbitmq_client.go`) | connection and channel handles, `done`, close signals, running flag | Start, Stop, reconnect loop, watchers, channel operations | mutex, signal channels, the broker, two event topics | Stop and restart against a dial; signals of dead handles; two loops |
| NATS client (`nats/nats_client.go`) | connection, subscription table, `done`, running flag | Start, Stop, Subscribe, Unsubscribe, Publish, context watcher | mutex, nats.go callbacks, event topics | unlocked network calls between check and update |
| Postgres client (`postgres/postgres_client.go`) | pool handle | Start, Stop, SetPool, queries, Transaction | RWMutex, pgxpool | Stop waits for connections with the lock held |
| Memcached client (`memcached/memcached_client.go`) | handle | Start, Stop, Get, Set, Delete, spans | RWMutex | Stop during Start; silent no-ops without a handle |
| Tracing of NATS (`nats/nats_trace.go`) | spans, message headers | StartPublish, Inject, Extract, StartConsume, End | contexts; handlers that publish or use the cache | a context that carries somebody else's span |
| Connect with backoff (`*_connect.go`, `gtk/backoff.go`) | attempt count, deadline | retry until success, permanent error, limit, cancellation | backoff/v5 | limits that race; off-by-one attempts |
| HTTP middleware (`httpx/`) | in-flight counter, recorded status | chain, recovery, metrics, error mapping, logging | handler nesting, panics | order of the layers; a header written before a panic; an init that panics under sync.Once |
| gRPC interceptors (`grpcx/`) | as above | as above | as above | as above |
| Domain errors (`gtk/domain.go`) | | the checkers | the HTTP and gRPC error mappings | wrapped errors |
| Circuits, logger, options | configuration | | | |

What makes each correct:

* *Event bus.* No send on a closed channel; unsubscribe is quiet when it
  returns, whoever called it; a cancelled topic forgets nobody; each value
  reaches each registered subscriber exactly once; every call returns as long
  as handlers do.
* *RabbitMQ client.* No handle is lost; the channel belongs to the connection;
  the client reconnects and its listeners hear of it; Stop ends the loop and
  closes the connection. No message that reached the queue is lost, whatever
  happens to the channel it is handled on, and no call keeps `chMu`.
* *NATS client.* Every handler that runs is in the table or in the hands of a
  call; a stopped client holds no connection; Stop and Start never panic.
* *Postgres, Memcached.* Stop returns, and leaves no Postgres pool if no Start
  overlaps it; every operation ends, with or without a handle, and so does its span.
* *Tracing.* Every span ends once, with the outcome its caller saw, and the trace
  of a request goes on through the message and what its handler does.
* *Backoff.* At most MaxRetries attempts; ends by success, limit, deadline or
  cancellation; the error is the last one.
* *Middleware.* In-flight is the number of requests in flight; every request is
  counted once, with the status the client saw; an error is answered with the
  status of its kind; a panic never leaves the outermost recovery.

`PROJECT.json` lists the hazards at their lines, with the properties that watch
over them.

## Modules

| Module | Models | |
|---|---|---|
| `RWMutex` | Go's `sync.RWMutex` (external): a writer that waits keeps new readers out | extended by `EventBus`, `PoolClient` and `CacheClient` |
| `EventBus` | `gtk/event_bus.go` | the topic, its publishers, subscriptions, workers, canceller |
| `FanOut` | the abstract promise to a subscriber | `EventBus` implements it |
| `EventBusMC` | instances for TLC | |
| `EventBusProofs` | theorems about `EventBus` | |
| `RabbitClient` | the lifecycle in `rabbitmq/rabbitmq_client.go` | loop, watchers, Start and Stop, broker |
| `RabbitClientMC` | instances for TLC | |
| `RabbitProofs` | theorems about `RabbitClient` | |
| `NatsClient` | Start, Stop, the watcher and the subscriptions in `nats/nats_client.go` | callers, users, watchers, the library |
| `NatsClientMC` | instances for TLC | |
| `NatsProofs` | theorems about `NatsClient` | |
| `PoolClient` | `postgres/postgres_client.go` with the retries of `postgres_connect.go` | callers, users, the pool |
| `PoolClientMC` | instances for TLC | |
| `PoolProofs` | theorems about `PoolClient` | |
| `ChannelLife` | the abstract promise to the operations of the RabbitMQ client | `RabbitClient` implements it, `RabbitOps` builds on it |
| `RabbitOps` | the channel operations in `rabbitmq/rabbitmq_client.go`, `declareTopology` | publishers, workers, loop, broker |
| `RabbitOpsMC` | instances for TLC | |
| `RabbitOpsProofs` | theorems about `RabbitOps` | |
| `CacheClient` | `memcached/` | callers, users |
| `CacheProofs` | theorems about `CacheClient` | |
| `NatsMessages` | Publish and the callback in `nats/nats_client.go`, `nats/nats_trace.go` | publishers, handlers |
| `Worker` | a handler that uses both clients | composes `CacheClient` and `NatsMessages` |
| `WorkerMC` | instances for TLC | |
| `WorkerProofs` | theorems about `Worker` | extends `CacheProofs` |
| `DomainErrors` | `gtk/domain.go` | constants and operators |
| `Middleware` | a chain of layers with panics, sync.Once and the instruments | what HTTP and gRPC have in common |
| `HttpChain`, `GrpcChain` | `httpx/`, `grpcx/` | extend `Middleware` |
| `Service` | a process that serves both | composes the two chains |
| `ServiceMC` | instances for TLC | |
| `ServiceProofs` | theorems about `Service` | |

### EventBus

A subscription is named by the id its Subscribe draws. `subs`, `unsubs`, `chan`
and `closed` are `t.subs`, `t.unsubs` and the Go channels. Every goroutine has a
program counter: `subPc` for a Subscribe, `unsubPc[<<s, c>>]` for caller `c`
inside the unsubscribe function of `s`, `pubPc` for a publisher, `watchPc` for
the goroutine that waits for the context. `busy` and `exited` describe the
workers, `delivered` is a history of what fn was called with. The callers of
unsubscribe are the users, the goroutine unsubscribeAll starts per handle, and
Subscribe itself when it finds the context cancelled; `once` is the `sync.Once`
they meet in.

A critical section in which nothing waits is one step; it takes the lock, runs,
and releases it. Announcing a writer is a step of its own, since from then on
readers queue. Publish takes one step to lock, one to start the range, one to
pick the next subscription (a Go map has no order) and one to send, which waits
for room. A send on a closed channel panics and the deferred RUnlock runs, which
is how `NoSendOnClosed` can fail. fn returning and fn panicking are one action,
because the panic is recovered; fn may itself publish (`Nested`).

### RabbitClient

Connections, channels, and generations of `done` are numbers; the Go channels
`connClosed` and `chanClosed` share the number of the handle they tell about.
Each `Start` has its own loop, and `pc` follows it through `reconnectLoop`,
`dial`, `openChannel`, `closeChannel` and `teardown`; a call of Stop runs the
same teardown actions. `held` is the handle a goroutine has in a local variable:
closeChannel and dropConnection take the handle out of the client under the
mutex (`CloseChannelTake`, `DropConnectionTake`) and close it after the unlock
(`CloseChannelClose`, `DropConnectionClose`), and openChannel reads the
connection (`OpenChannelRead`), opens a channel on it (`OpenChannelOk`), declares
the topology, or fails and closes the channel (`OpenChannelFails`), before the
client shows it (`OpenChannelInstall`). So Stop may be closing a connection which
the client no longer holds while the loop shows a channel it has just opened on
it; `ChannelOnConn` allows this one case (`StopCloses`), and an open channel of
any other connection is never shown. `Reconnects` asks for a connection and a
channel that are open, not for IsConnected, which does not look at the channel.
`r.done` is read where the code reads it, without the
lock, so a loop of an earlier Start sees the newest one. Reading a Go channel
variable while another goroutine replaces it is a data race; the model takes the
old or the new value. The broker may close a connection or a channel at any
time; a dial and the opening of a channel may fail. `announced` is the last
event published to the Connected and Disconnected topics; publishing is one step
here, the topics are the subject of `EventBus`.

### NatsClient

The g-th Start makes `done` channel g, connection g and goroutine g
(`watchContext`). `running`, `done`, `nc` and `subs` are the fields of the
client; `connState`, `subState`, `subConn` and `subSubject` are what the library
knows. A critical section is a step, and so is each call of the library made
without the lock: connecting (`StartConnect`, `StartConnectFails`), draining
(`StopDrain`), subscribing (`SubscribeAsk`, `SubscribeRefused`) and
unsubscribing (`Release`). `mine` and `hand` are the local variables that cross
from one to the next. The watcher reads `c.done` when its select starts, without
the lock, which is why `WatchStart` is a step of its own. The library
(external) reconnects by itself, so a connection that is cut off stays open; a
drain closes it in the end, or at once when it cannot drain; while it drains it
refuses Subscribe and Unsubscribe.

### PoolClient

`pool` is `p.pool`; pools are numbered as the attempts make them. A Start goes
through `Attempt` (a new pool), `PingOk` or `PingFails` (which closes it), and a
wait that ends in `Retry` or `GiveUp`; SetPool then takes the lock. Stop takes
the lock, closes the pool and waits for its connections while it keeps the lock
(`StopClose`, `StopEnd`). Ping, Exec, Query, QueryRow, Begin and Transaction have
one shape: read the pool under the read lock (`OpCall`, `OpRead`), take a
connection (`Acquire`, `AcquireFails`), run the application's code, give it back
(`Release`). That code may use the client again, which is the inner operation of
the same user (`Reentrant`). The pool (external) refuses connections once it
closes, and hands them out in order before.

### RabbitOps

A call of an operation takes `chMu` and reads the channel (`CallPublish` and so
on); what it then does is a second step, in between which the loop may take the
channel away and show another one. What the loop does to `r.channel` is
`ChannelLife`: channels are opened in order, shown once, one at a time, taken
away, and closed afterwards (`DropChannel`, `CloseChannel`), so an operation may
find the channel it has read open still. `RabbitClient` is shown to implement it (`RefinesLife`, with `shown`
read as the number of `chanClosed`), so `RabbitOps` need not repeat the loop.
The opening of a channel is three steps (`OpenChannel`, `DeclareTopology` or
`DeclareFails`, `InstallChannel`). The steps of `RabbitOps` that move the channel are
`ChannelLife`'s own actions with what else they do.

The broker (external) has one durable queue, knows a delivery by its channel and
tag, and puts what waited for an answer back when a channel goes. `BrokerLoses`
is the loss, `ClientNotices` the moment the library learns of it: in between a
publish is written into nothing. PublishJSON returning nil is therefore no
promise (the client asks for no confirms), and `NoMessageLost` begins where the
broker has the message. A worker consumes again when its stream has ended and
answers each delivery with Ack, with Nack, or with Nack and requeue. `got` may
outlive its channel: its answer is then nobody's (`Answered`).

The comments of Ack and Nack say "on the current channel"
(`rabbitmq/rabbitmq_client.go:375`, `:384`); the code answers on the channel of
the delivery, which is right: on the current one the tag is another delivery's.
Publish is not mandatory, so a message without a binding is dropped by the
broker without a word; that the topology is declared before the channel is shown
is what keeps this from happening on a new channel. Bindings made with QueueBind
on a queue that dies with its connection are not made again by the client.

### CacheClient

`client` is `m.client`. A Start goes through `ProbeOk`, or `ProbeFails` and
`Retry`, as often as MaxRetries allows, and then stores its handle as SetClient
does; Stop is SetClient(nil), so it has the same two steps. An operation starts
its span, reads the handle under the read lock, and either has none
(`Disconnected`: a miss, or nothing to do) or asks the server, whatever happens
to the client meanwhile. `answer` is what the caller got. Handles are never
closed, by Stop or by a Start that replaces one. Without a handle Set and Delete
return nil. A Set of a nil item panics in the library with its span open and is
left out.

### NatsMessages and Worker

A context is the span it carries and whether it opted out (`gtk.ReduceInstrumentation`).
`StartPublish` reads the connection and starts the span, unless the context has
none to start below; `PublishMsg` writes the message, with the span in its
header or plainly, and ends the span with the result of the library. `Callback`
is the library calling the function Subscribe gave it: the header is extracted
and a span started below it, which ends when the handler returns. Messages may
get lost on their way.

In `Worker` the handlers are the users of the cache: they ask it, and publish,
with the context they were given or one that opted out. So the second message is
published inside the handling of the first, or by the application.

### Middleware, HttpChain, GrpcChain, Service

A request (`q[r]`) is at a layer of its chain, going in, coming out or in a
panic; each layer is one step on the way in and one on the way out. `Chains` is
what the application's router and interceptors make: `NewRouter`, `Child` and
`RouteLayers` put the HTTP one together, for a route of a child as well: only the
root's Handler serves (`httpx/http_router.go:49`). The metrics layer makes its instruments
under `sync.Once` (`once`), which a second request waits for and which is over
also if `init` panicked; then it counts the request as in flight and defers the
rest (`Opens`, `Closes`). An `init` that panics has made none of the
instruments, the counter of requests, or that and the one of the requests in
flight (`Partial`). The deferred recording may panic, before or after it has
added to the counter (`httpx/middleware_http_metrics.go:162-167`,
`grpcx/middleware_grpc_metrics.go:90-95`); the counting down runs nevertheless. `inflight` is the counter `active_requests` of a transport,
`counted` what was added to the others for this request.

HTTP: `answer` is the first header that reached net/http, `status` what the
statusRecorder noted, and the two differ when a header is written twice.
WithContext makes a clone of the request; `pattern` is the clone the mux wrote
the Pattern on and `held` the one the metrics layer holds. gRPC: an interceptor
returns an error; with a named result there is nil in it while a panic passes
(`Result`). An error has a kind and a number of wrappings (`DomainErrors`).

`ServiceMC` has the order the comments ask for: recovery before and after the
metrics layer, the logger before it, the error layer innermost.

## Runs

| Run | Instance | Shows |
|---|---|---|
| `eventbus_safety` | 2 subscriptions, 2 workers each, 2 publishers, 1 user, buffer 1, 1 publish each; 315,000 states modulo symmetry | all safety properties, and that the bus implements `FanOut` |
| `eventbus_live` | 2 subscriptions, 1 worker each, a publisher that publishes twice, buffer 1; 112,000 states | calls return, cancellation unsubscribes everyone, buffers drain |
| `eventbus_reentrant` | 1 subscription whose handler publishes | **violation** of `CancelUnsubscribesAll` |
| `rabbit_client` | 1 caller, 2 Starts, 1 failure; 277,000 states | no leak, channel on its connection, reconnects with both open, loops end, and the client implements `ChannelLife` |
| `rabbit_restart` | 2 Starts, no failure, restart at once | **violation** of `LoopsEnd` |
| `rabbit_ops` | 2 channels, 1 loss, 2 messages, 1 publisher, 2 workers, 1 requeue; 102,000 states | no message of the queue is lost, every one is handled in the end, `chMu` is always given back |
| `nats_client` | 2 Starts, 2 users, 1 subject, 4 subscriptions, cancellation; 98,000 states | no handler and no connection is lost, no double close, cancellation closes everything |
| `nats_restart` | one caller, Start again at once | **violation** of `NoDoubleClose` |
| `pool_client` | 2 Starts, at most 2 attempts each, 2 users, 1 connection; 3,800 states | no pool is lost or handed out closed, attempts are bounded, every call comes back |
| `pool_deadlock` | 1 user that uses the client while it holds one of 2 connections | **violation** of `StopReturns` |
| `worker` | 2 callers, 2 Starts of 2 attempts, 1 handler, 1 publisher, 2 messages; 1,340,000 states modulo symmetry | spans end once with the caller's outcome, traces are whole |
| `service` | 2 requests of 6 kinds, one kind of domain error wrapped at most once, instruments made or not; 471,000 states | the counters add up, errors get their answer, the answer is the one counted, every request ends |

**Bounds.** A buffer of 1 fills with the fewest values; a larger one only delays
the block. With two workers a value can be in a handler, and another in the
buffer, when unsubscribe closes the channel. Two publishers are enough for one to hold
the read lock while the other waits behind an announced writer. Two
subscriptions let a range be interrupted between them and let one Subscribe race
the cancellation while the other is being unsubscribed. In the liveness run the
callers of unsubscribe are Subscribe and unsubscribeAll, which is what the
cancellation needs; the calls of a user are in the safety run. The RabbitMQ
instance has enough numbers for every dial its Starts and failures can cause
(`BoundsAreEnough`), so no behaviour is cut off by a bound. The NATS
subscriptions of different subjects touch nothing in common but the connection,
so one subject serves; four subscriptions are two that meet on each of two
connections.

In `rabbit_ops` one loss is enough: what can go wrong after it concerns an old and a new
channel, and the last channel has to stay for anything to be handled. Two
messages are what a tag can be mixed up between, two workers what a redelivery
can meet. `service` has two requests because the instruments are shared: one that
makes them and one that waits; one kind of error stands for the six, which the
mappings treat alike; a handler writes its header once, and `slow` is left open.
In `worker` two callers let a Stop and a Start, or two Stops, overlap; the second message is the one a handler
publishes.

**Restarts.** `Patient` makes the application call Start again only after the
last loop has ended and `Connection()` and `GetChannel()` are nil. With it
`LoopsEnd` and `NothingLeaks` hold; `rabbit_restart` shows why it is needed. In `NatsClient`
`Careful` keeps calls of Start and Stop apart, and `Patient` lets a Start wait
for the watchers of the earlier ones, which an application cannot see. In `PoolClient` `Careful` means the same as in
`NatsClient`.

**Deadlock** is not checked, but in `worker`: a topic nobody publishes to, or a stopped client,
has nothing to do. The liveness properties take its place.

**Fairness.** A goroutine that can take a step eventually does (Go's scheduler,
and mutexes that hand over to a starved waiter), so each process has weak
fairness on its own steps. Handlers return, except where a handler waits in
Publish. Nobody has to call Subscribe, unsubscribe, Publish, Start or Stop, to
cancel, or to fail; pgxpool serves those that wait for a connection in their
order, hence strong fairness of `Acquire`, and the application gives connections
back; a NATS drain ends, since the library limits its time. In `RabbitClient` failures are bounded, so a broker that
stops failing is assumed for `Reconnects`, and no fairness is needed on the
success of a dial. In `RabbitOps` the loop brings the channel back, which is what
`Reconnects` says; the calls of Consume and Ack have strong fairness, since a
sync.Mutex starves nobody, and workers go on consuming and answer what they got,
in the end with Ack. In `Service` some goroutine that can run does, and handlers
end. `Worker` is checked for safety only.

## Findings

* A handler that publishes to its own topic can block the topic for ever
  (`eventbus_reentrant`): its worker waits for room in a buffer that only it
  drains, or for a writer that waits for such a publisher. Cancelling the context
  then does not unsubscribe it, against the comment of `NewEventBusTopic`.
* `Stop` followed by `Start` can keep the old loop alive (`rabbit_restart`): it
  reads the new `r.done` and never sees its own close.
* After Start, Stop, Start the watcher of the first Start can stop the second
  while it connects; if connecting fails, Start closes the closed `done` and
  panics (`nats_restart`). One goroutine making the calls in order is enough.
* A Postgres `Stop` deadlocks with a Transaction, or open rows, whose code uses
  the client (`pool_deadlock`): Stop holds the lock while it waits for the
  connection, the code waits for the lock.

What follows from the code as well, and is no run:

* *Stop during Start.* No client's Stop waits for a Start or a dial. The RabbitMQ
  loop installs a connection that comes up during Stop after the teardown,
  announces Connected, and ends at `r.done` with the connection open
  (`rabbitmq/rabbitmq_client.go:162`). NATS, Postgres and Memcached store what
  they made in a client that was stopped (`nats/nats_client.go:118`,
  `postgres/postgres_client.go:76`, `memcached/memcached_client.go:81`); a second
  Stop of the last two, and none of NATS, releases it. A Memcached Stop whose
  store comes after that of a later Start takes the new handle away. `Careful`
  excludes these for NATS and Postgres; `RabbitClient` and `CacheClient` have them,
  and no property of theirs says otherwise.
* *A histogram that panics.* The metrics layer adds to its counter first: if the
  histogram panics after it, the request is counted with the status of the
  recorder, and the recovery outside answers 500, or Internal
  (`httpx/middleware_http_metrics.go:165`, `grpcx/middleware_grpc_metrics.go:93`).
  `AnswersAgree` leaves the requests out whose record panicked.
* *IsConnected.* It "reports whether a live connection and channel are available"
  (`rabbitmq/rabbitmq_client.go:299`), but never asks whether the channel is open
  (line 306): from the moment the broker closes it until the loop takes it away, a
  dead channel counts as connected. `Reconnects` therefore does not use it.
* *NATS table.* A Subscribe that began before a Stop and enters its subscription
  after the next Start leaves an entry whose handler is gone, and the subject is
  `ErrAlreadySubscribed` until it is unsubscribed. `EntryIsLive` therefore speaks
  of entries of the present connection.
* *NATS events.* The library calls the handler of Connected when it has
  connected, which may be before Start has stored the connection: a listener that
  subscribes then is told "nats not connected". The Disconnected of a connection
  that drains can come after the Connected of the next Start.
* *A panic after the header.* If a handler has written its header and then
  panics, or a header is written twice, the recorder keeps the last status and
  the client has the first (`httpx/middleware_http_metrics.go:178`);
  `AnswersAgree` leaves this out.
* *Streams.* There is no recovery for streams, although the comment of
  StreamMetricsInterceptor (`grpcx/middleware_grpc_metrics.go:39`) asks for the
  same order as for calls: a panic leaves the chain, and is counted as OK.
* *Errors.* The checkers see the outermost layer only: a domain error that is
  wrapped is answered with 500 or Internal, except that `ErrorMiddleware` unwraps
  a panic once. `ErrorInterceptor` turns a status the handler made itself into
  Internal. Both recoveries of HTTP also swallow http.ErrAbortHandler.

## Proofs

Every safety property, every action property and every refinement that a passing
run checks is also a theorem, for all values of the constants, and so are the
types. The assumptions are those the modules make on their constants
(`BusAssumption` and so on), which TLC evaluates in the runs, and where it is
said, `Careful` or `Patient`. A theorem with such a hypothesis is about an
application that keeps to it: the constant is TRUE in the run that checks the
property, and FALSE in the run of the finding that shows why it is needed
(`rabbit_restart`, `nats_restart`; for Postgres, *Stop during Start* under
Findings). The invariants are proved for both values:
what needs the hypothesis is one conjunct (`CarefulInv`, `PatientInv`).

All proofs are laid out alike. `IInv` is inductive; there is a lemma for the
initial states, a lemma for each group of actions, and `Invariance` puts them
together. Each was checked with TLC before it was proved; no run needs it any
more.

| Module | Theorem | Property |
|---|---|---|
| `EventBusProofs` | `TypeCorrect` | `TypeOK`, with the bound of each channel |
| | `PublishIsSafe` | `NoSendOnClosed` |
| | `UnsubscribeIsQuiet` | `QuietAfterUnsubscribe` |
| | `NobodyIsForgotten` | `NoOrphanAfterCancel` |
| | `DeliveredOnce` | `AtMostOnce` |
| | `PublishIsComplete` | `PublishReachesAll` |
| | `ImplementsFanOut` | `RefinesFanOut` |
| `RabbitProofs` | `TypeCorrect` | `TypeOK` |
| | `HandlesAreKept` | `NothingLeaks`, if `Patient` |
| | `ChannelIsCurrent` | `ChannelOnConn`, if `Patient` |
| | `ImplementsLife` | `RefinesLife`, if `Patient` |
| `RabbitOpsProofs` | `TypeCorrect` | `TypeOK` |
| | `MessagesAreKept` | `NoMessageLost` |
| `NatsProofs` | `TypeCorrect` | `TypeOK` |
| | `HandlersAreReachable` | `NoLostHandler` |
| | `EntriesAreLive` | `EntryIsLive`, of the entries of the present connection |
| | `NoPanic` | `NoDoubleClose`, if `Careful` and `Patient` |
| | `ConnectionsAreKept` | `NoLostConnection`, if `Careful` and `Patient` |
| `PoolProofs` | `TypeCorrect` | `TypeOK` |
| | `PoolReadIsLive` | `PoolIsLive` |
| | `NoPoolIsLost` | `NoLostPool`, if `Careful` |
| | `StopLeavesNothing` | `StoppedHasNoPool`, if `Careful` |
| `CacheProofs` | `TypeCorrect` | `TypeOK`, part of `WorkerTypeOK` |
| | `SpansAreEnded` | `SpansEnd` |
| `WorkerProofs` | `WorkerTypeCorrect` | `WorkerTypeOK` |
| | `TracesAreWhole` | `TracesJoin` |
| | `WorkerEndsSpans` | `SpansEnd` |
| `ServiceProofs` | `TypeCorrect` | `TypeOK` |
| | `ActiveIsExact` | `InflightExact` |
| | `CountedExactlyOnce` | `CountedOnce` |
| | `CountedAsAnswered` | `AnswersAgree` |
| | `ErrorsKeepTheirKind` | `ErrorsAnswered` |

**EventBus.** None of the properties is inductive alone. A send finds its channel
open because a publisher ranges under its read lock over subscriptions that stay
registered (`RangeInv`), and a channel is closed only when its subscription is
not registered (`ClosedInv`). Unsubscribe is quiet because sync.Once lets nobody
return before the pool has been joined (`OnceInv`) and a worker leaves only a
closed and drained channel, into which nothing is sent (`ExitInv`). Nobody is
forgotten because until `unsubscribeAll` takes them `unsubs` holds the handle of
every subscription, and a Subscribe after that sees the context cancelled
(`WatchInv`). A value is delivered once, and to everybody, because while a range
is under way a registered subscription has the value if and only if its turn is
over, and a value no range has begun with is new (`DeliveryInv`). That each
subscription is an inbox of `FanOut` needs one fact more: what a pool runs was
delivered, and no two workers of a pool run the same value (`BusyInv`), so that
an fn that returns is done with one value. `FanOut` knows members, the pending
and the handled; the phase of a subscription follows from its program counters
(`PhaseInv`), and a step of the bus is one step of one inbox, or none.

**RabbitClient.** Channels are opened in the order of their numbers (`OrderInv`),
which is what makes an opened channel newer than the one shown. With `Patient`
there is one loop that is not at its end (`OneLoop`): it has no connection while
it dials, no channel before it opens one, and the channel it opened is on the
connection of the client, or on one that a Stop has in hand to close, as long as
it is open: closing the connection closes the channel. Nothing leaks because only
that loop and Stop take a handle away, and both have it in hand until it is
closed (`HandInv`). In the refinement the
channel of `ChannelLife` is `r.channel` and what it showed last is `chanClosed`.

**RabbitOps.** A channel and a tag name one delivery (`TagInv`), also after the
channel was lost, so an answer that comes too late answers nothing, and never
another worker's delivery. Who acknowledges has a delivery in hand whose handler
is done (`AckInv`). Unless the application unbinds, the queue is bound before a
channel is shown (`BoundInv`), so that what is published is queued.

**NatsClient.** The connection of a Start is its own until it is stored
(`FreshInv`), the client's is open and nobody drains it (`ConnInv`), and a
subscription is in the table, under its subject, or in the hands of one user, and
never both (`TableInv`). This takes no discipline of the application, so no handler
becomes unreachable, however Start and Stop overlap. The discipline keeps
connections: with it one call is under way, a Start finds no connection and no
watcher, and the client that runs has its `done` open and to itself
(`OneOwner`).

**PoolClient.** Whoever waits for the readers, or is through, holds the lock alone
(`LockInv`); a pool that is being connected is open and its maker's, and the
client's is open unless a Stop closes it (`HandleInv`). So an operation never
gets a pool that was closed when it read it, and a connection only from one that
is not closed yet (`OpInv`), with any overlap of calls. `OneCall` is what
`Careful` adds: a Start finds no pool, a Stop leaves none.

**CacheClient and Worker.** An operation under way has its span open, if it has
one, and no answer (`OpInv`), so the one way out it takes ends the span. A step of
`Worker` is a step of `CacheClient` or leaves its variables alone, so this holds
inside a handler. Traces are whole
because a message is in one place at a time: with one sender (`SendInv`), once on
its way with the span of its Publish (`InboxInv`), or with one handler, below that
span (`HandlingInv`).

**Service.** A step moves one request, and `Move` says field by field how: it
arrives, goes one layer in, writes, is turned back by its handler or by the mux,
goes one layer out, ends, or is at the metrics layer, where the instruments
change as well. `Moves` proves this of every action, once, and every invariant
is proved about moves. `IInv` says that the place of a request decides what the
metrics layer has deferred for it, that the instruments are made before anyone
is behind that layer, and that `inflight` is the cardinality of the set of
requests whose deferred functions count down. `CountingInv`, `AgreeingInv` (with
`FreshInv`) and `AnsweringInv` are inductive given `IInv`: nothing is counted
before the layer is left; what the recorder holds is what the client got until
a handler that has written panics, or the record itself; and an error, or a panic, is what the handler
raised until the layer that answers it. The chains are any sequences of layers
with at most one metrics layer, for HTTP with the mux of the router somewhere in
it, so each property says itself what order it needs: a recovery inside the metrics layer
for `AnswersAgree` (`Guarded`; for gRPC no error layer outside it, which would
change the code after it was counted), exactly one error layer for the kind of an
error (`Converts`), a recovery outermost for panics.

**Only model-checked.** The liveness properties (`CallsReturn`,
`CancelUnsubscribesAll` and `BuffersDrain` of the event bus, `Reconnects` and
`LoopsEnd`, `CancelEndsAll`, `CallsReturn` of the pool, `Drains`, `Finishes`): they rest on
fairness, and ENABLED is out of the prover's reach. The runs that show a violation
show it on an instance, which is all it takes. That `worker` has no deadlock
is not a theorem either.

## Plan

Everything in the inventory that has behaviour of its own is modelled, and what
is safe in it is proved. What may still be proved are the safe halves of the
liveness arguments: that a wait has somebody to end it (a caller that waits for
a lock has a holder, a Publish that waits for room has a worker, a second request
at `sync.Once` has a first in it), and that what is awaited never gets further
away.

## Not modelled

* Options and their defaults, logging, names and attributes of metrics and spans,
  SQL, bodies and payloads: configuration and output, passed through.
* `gtk/managed.go`: an interface, and two functions that call their argument
  through the application's circuit. `gtk/backoff.go` collects options. The
  delays between attempts are any time.
* `kafka/kafka_connect.go` and `rabbitmq/rabbitmq_connect.go` repeat the loop that
  `PoolClient` and `CacheClient` have; `RabbitClient` takes it as one dial, which may
  outlast a Stop.
* `postgres/postgres_trace.go`: pgx decides when its hooks are called; each pair
  does what `SpanStart` and `SpanEnd` of `CacheClient` do.
* The topics Connected and Disconnected of the NATS client, which the library's
  callbacks feed, and its reconnects.
* Contexts that end during an HTTP request or a call, and the codes they make.
* Repository tooling.
