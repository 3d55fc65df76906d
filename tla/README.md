# Verification of blocks-genesis

TLA+ modules, model-checking runs and machine-checked proofs for the Python
package `src/blocks_genesis`: the library that the services of a multi-tenant
platform use for authentication, tenants, messaging, delegated tokens, logs and
traces. All paths below are under `src/blocks_genesis` unless they begin with
`src/`.

The package is `asyncio` code with a few threads. What is hard about it is not
computation but order: tasks that share a database read or a lock, messages that
are redelivered, work that is settled and released in steps that may each fail,
clocks that decide whether a cached thing may still be used. That is what the
modules are about; formatting, logging and the wire formats are left out.

## 1. Inventory

| Part | State it keeps | Operations | What is hard | What makes it correct |
|---|---|---|---|---|
| Delegated token provider (`_delegation/token_provider.py`) | `_tokens`, `_locks`, `_call_count` | `get_token_async`, `invalidate`, the sweep in between | callers of one grant queue on a lock that a sweep or a settling message drops; cancelled waiters; expiry is computed when the answer arrives | one exchange at a time per grant, none while a usable token is cached, no dead token served, no caller left asleep |
| Delegation grants (`grant_store.py`, `grant_factory.py`, `context.py`) | a record per grant in Redis with an absolute TTL; the grant a task holds | create (direct or from the held grant), read, delete | a grant is written before the send and deleted after the settlement, by different processes; a chain of sends goes through contexts that can be replaced | business op, then ACK, then DEL; a chain never changes its subject |
| Endpoint resolver (`endpoint_resolver.py`) | endpoints per tenant, one lock | `get_token_endpoint_async` | the lock is held during discovery, for all tenants; waiters are cancelled | one discovery at a time, none for a known tenant, every call ends |
| Azure client and worker (`_message/azure`) | a sender and a lock per destination; renewal events; the context variables of a receiver loop | send with one retry, receive, handle, complete, abandon, stop | lost locks, redelivery, a send that failed and still arrived, one task for many messages | a message is completed only when done, every message ends, no context leaks into the next message |
| RabbitMQ client, connection and worker (`_message/rabbit_mq`) | connection, channel, consumer tags | publish, deliver, always ACK, run, stop | lost connections and acknowledgements, fan-out of one grant to several queues | settlement order, every delivery is acknowledged |
| Message contracts and registry (`_message/*.py`) | the handlers by name | register, dispatch | nothing concurrent | |
| Tenant service (`_tenant/tenant_service.py`) | tenants by id, shared reads, the subscription | get by id or domain, update version, notifications, dispose | reads race with notifications; a caller's cancellation cancels the shared read | one read per tenant, no dead read registered, the cache agrees with the database |
| Redis client (`_cache`) | connection, handlers and listener tasks by channel | get/set, publish, subscribe, unsubscribe, dispose | two tables without a lock, used across awaits; a handler that raises ends the listener | nothing listens once its subscription is gone, every call returns |
| Log exporter (`_lmt/mongo_log_exporter.py`) | queue, batch, stop event | enqueue, worker loop, stop | stop while records are queued, failing inserts | every record accounted for, stored in order, flushed at the end |
| Trace exporter (`_lmt/mongo_trace_exporter.py`) | bounded queue, a buffer per draining thread, stop event | export, worker loop, force_flush, shutdown | three threads drain one queue; joins that time out | every span in one place, a flush drains, every span settles |
| Third-party identity providers (`_auth/third_party_*.py`) | providers per tenant with an age, shared reads | get_active, invalidate, select | stale rows, joined and failed reads, ambiguous rows | bounded staleness, a token reaches only the provider that signed it |
| Authentication and authorization (`_auth/auth.py`) | the request's context; certificates in Redis | authenticate, fall back, map claims, check permission | two validations in a fixed order, either of which may fail | own tokens get in, external ones stay in their scope |
| Blocks context (`_auth/blocks_context.py`) | one context variable | set, clear, from claims, to and from transport | tasks that outlive a message | a task acts in its own context |
| Middleware (`_middlewares`) | the request's context | dispatch | clearing on every path | no context survives its request |
| Mongo context (`_database`) | clients and databases by connection | get database, collection | threads that miss together | one client per connection |
| Start-up and configuration (`_core`) | singletons | start, cleanup | clean-up that fails half-way | everything is stopped |
| Subscription usage (`_subscription`), utilities (`_utilities`, `_entities`) | none | read, decrypt | | |

How they interact. A request passes the tenant middleware (tenant service), then
`authorize` (provider store, tenant service, Redis, Mongo context), which sets the
Blocks context. A send reads that context, has the grant factory write a grant
and puts its id on the message. A worker restores the context, sets the grant
for the task, runs the handler (which may send again, or ask the token provider
for a token), settles the message, deletes the grant and invalidates the token
provider's entry. Tenant changes reach other processes through Redis pub/sub.
Logs and spans of all of it go through the two exporters.

`PROJECT.json` lists the components with what is and is not modelled of each, and
the hazards with their lines and the properties that cover them. At most forty
are listed. Left out for that reason only: the log batch that waits for more
records (`_lmt/mongo_log_exporter.py:120`), the unreferenced handler task
(`_message/rabbit_mq/rabbit_message_worker.py:116`), the unguarded read of a held
grant (`_delegation/grant_factory.py:148`), the cancelled read of the providers
(`_auth/third_party_provider_store.py:62`) and the clean-up that fails half-way
(`_core/worker.py:124`); the last three are described in section 3, and all but the
last modelled.

## 2. Modules

| Module | Models | State ↔ code |
|---|---|---|
| `TokenProvider` | `get_token_async`, `invalidate`, `_sweep_expired`, `asyncio.Lock`, the clock | `tokens`, `locks`, `calls` are `_tokens`, `_locks`, `_call_count` modulo the sweep period; `held`, `ahead` the lock's flag and its FIFO; `issuedAt` when IAM issued the token on its way |
| `TokenProviderProofs` | | theorems |
| `GrantSettlement` | the promise of both workers: business op, ACK, DEL | a grant per message, the progress of each copy |
| `AzureDelivery` | send with retry, broker, receiver loop, `message_handler`, `_release_delegation_grant` | `place`, `deliveries`, `lockedBy` are the queue; `stage`, `job` a receiver loop; `security`, `ambient` the context variables of its task; `ReceiveRaises` is what `message_handler` raises before its `try` block; implements `GrantSettlement` with `MessageOf` as refinement mapping |
| `AzureDeliveryProofs` | | theorems |
| `RabbitDelivery` | publish, exchange and queues, the consumer callback | `receipt` is the task whose delivery tag is valid; `unheard` the copies whose ACK was lost; implements `GrantSettlement` |
| `RabbitDeliveryProofs` | | theorems |
| `GrantChain` | whose authority a chained grant carries: `DelegationGrantFactory`, the transported context, the held grant | `header` and `record` per message; `held` is what `_read_held_grant` returned |
| `GrantChainProofs` | | theorems |
| `TenantCache` | `TenantService` with database and pub/sub | `loads` is `_tenant_load_in_progress`, `read` the task each call started, `updates` the scheduled `_handle_update` tasks |
| `LogExporter` | `MongoBatchLogger` | queue, batch, stop event, worker, caller of `stop` |
| `TraceExporter` | `MongoDBTraceExporter` | queue, one buffer for each thread that drains it, stop event |
| `ProviderStore` | `ThirdPartyJwtProviderStore` | `cache`, `loads` as in the code, `read` and `awaits` the tasks and who awaits them |
| `Authentication` | extends `ProviderStore` with the requests that call it: middleware, `authenticate`, `_run_fallback`, selection, primary validation, contexts, permission check | `stage` where a request stands, `via` its provider, `ctx` the context variable |
| `AzureRenewal` | the receivers' prefetch, `start_auto_renewal_task`, `_active_message_renewals`, `stop`, on a clock | `job` is the message a loop handles with what is left of its lock, `renewal`, `event` and `timer` the task, its event and its wait, `active` the table |
| `RedisPubSub` | `subscribe_async`, `unsubscribe_async`, `_handle_subscription`, `dispose_async`, `dispose` | `subscriptions`, `tasks` are the two tables; `phase`, `raised` the listener tasks; `left`, `size` the iteration of `dispose_async` |
| `EndpointResolver` | `get_token_endpoint_async` | `discovered` is `_discovered`; `line` the lock and its waiters; a discovery answers, fails (and falls back), or raises on its document (and does not) |
| `AzureSenders` | `_get_sender`, `_replace_sender`, the locked part of a send, `close` | `sender`, `line` are `_senders`, `_sender_locks`; a sender is a number, `uses` who is inside |
| `RabbitConnection` | `_ensure_initialized_async`, `create_connection_async`, `initialize_subscriptions_async`, both `close` | `connection`, `channel` as in `RabbitMqService`; `open`, `muted` what they are at the broker |
| `MongoContext` | `get_database`, `get_database_by_connection`, `_get_client` | `databases` is `_databases`; `known`, `clients` are `_clients` and how many were made |
| `CertificateCache` | `get_tenant_cert`, the cache of `_resolve_certificate_key`, a rotation, on a clock | `cached`, `until` are the entry in Redis; `ttl` the time to live, computed when the fetch returns and counted from the write |
| `BackgroundWorkers` | `LogExporter`, `TraceExporter`, `AzureRenewal`, `RedisPubSub` side by side | `part` is the one that acts |
| `SharedResources` | `EndpointResolver`, `AzureSenders`, `RabbitConnection`, `MongoContext`, `CertificateCache` side by side | `part` is the one that acts |
| `TenantCacheProofs`, `AuthenticationProofs`, `BackgroundWorkersProofs`, `SharedResourcesProofs` | | theorems |
| `MC*` | constants of the small instances | |

Conventions. An action is a stretch of code between two points where another
task or thread can run, so a critical section without an `await` is part of the
step it stands in. What is outside the code (broker, Redis, MongoDB, IAM, the
event loop, `asyncio.Lock`) is modelled from how the code uses it and marked
external in the map. Variables called history are read by properties only.
A definition named `Faulty...` is a slip of the pen beside the definition it
varies; no action uses it, and each property is known to notice one.
`BackgroundWorkers` and `SharedResources` compose components as alternatives, not
interleaved: the components share no state, so an interleaving shows nothing that
a behaviour of one does not, and the properties of a part speak of the behaviours
in which it acts.

## 3. Runs

Each run states its bounds in its `.cfg`. Deadlock checking is off in all of them:
calls, messages, records and requests are finite in number, so every instance
reaches a state where all is done.

| Run | Shows | Bounds, and why they are enough |
|---|---|---|
| `token_calls` | `SingleFlight`, `NoRedundantExchange`, `ServedTokenIsAlive`, `EveryCallReturns` | three callers of one grant (one exchanges, one waits, one arrives anew), four lock objects, lifetimes 0 and 1 with margin 1, a sweep at every second call, time to 2 |
| `azure_settlement` | `BusinessOpAckDel` (refinement), `CompletedWasDone`, `UnsettledKeepsGrant`, `ContextIsolation`, `EveryCopyEnds` | two loops, two deliveries; either (`Together`) one message that is sent twice at worst, hence two copies of it, or two that are sent once: one whose grant id is no string and which leaves its context, and one without a readable SecurityContext, which meets it. That any other message leaves nothing behind is seen on the first, whose loop must be idle without a context. No fairness is assumed of a send, so that `Together` excludes no fair behaviour of the messages that are sent |
| `rabbit_settlement` | `BusinessOpAckDel`, `UnsettledKeepsGrant`, `EveryCopyEnds` for RabbitMQ | one message to two queues, two tasks, two lost connections |
| `tenant_sync` | `SingleLoad`, `NoDeadLoad`, `InSyncUnlessOvertaken`, `EveryCallReturns` | three calls (starter, joiner, later call), one change |
| `background_workers`, exporters | `NothingVanishes`, `RecordsStoredInOrder`, `SpansDrained`, `EveryWaitEnds` | two threads of three records, batches of two: full, partial and final batches; three spans, a queue of two, the last impossible to encode; worker, flusher and stopper |
| `background_workers`, lock renewal | `LockHeld`, `EveryWaitEnds` | two loops, two messages with one id, prefetch 1; lock 3 ticks, interval 2, longest processing 3, three deliveries: a lock runs out in the buffer, a message comes back while it is handled |
| `background_workers`, listeners | `ListenersAreKnown`, `EveryWaitEnds` | two callers, two channels, two listeners: a second one on a channel, or one on each while the tables are iterated |
| `shared_resources`, resolver and senders | `NoRediscovery`, `OneInside`, `EveryCallReturns` | three calls, two of which want the same tenant or destination (holder, waiter, stranger), two cancellations, one destination that was not configured |
| `shared_resources`, RabbitMQ connection | `OneConnection`, `EveryCallReturns` | three sends (one initialises, one waits, one repeats what failed), two cancellations, two calls of `close()` |
| `shared_resources`, MongoDB | `OneClient`, `EveryCallReturns` | three threads of two calls, two clusters that use the same name |
| `shared_resources`, certificates | `CertificateLag` | two readers, one rotation, fetches of up to two ticks, eight ticks; days of two ticks, two of them valid: the certificate ends within the time, and a write may come two ticks, and a day, after its time to live was computed |
| `grant_chain` | `ChainKeepsSubject`, `UnbrokenChainContinues` | chains of three messages: the third tells a chain from a single hop; three tokens, other users', clients', tenants' contexts |
| `auth_requests` | `OwnTokensGetIn`, `AcceptedByItsIssuer`, `ExternalStaysInScope`, `ServedRecently`, `SingleLoad` | two requests that share a read or a cache entry, twelve kinds of request, four providers (two ambiguous, one without issuer, one claiming the tenant's own), lifetime and read time 1, time to 3 so that an entry expires |

The remaining four runs each show a statement of the repository that the code does
not keep:

| Run | Statement | What happens |
|---|---|---|
| `rabbit_undecodable` | "context → tracing → dispatch → always ACK" (`_message/rabbit_mq/rabbit_message_worker.py:126`) | a body that is not UTF-8 raises before the `try` block; the delivery is never acknowledged |
| `azure_malformed` | "Malformed values are treated as absent, so the flow fails closed." (`_delegation/context.py:27`) | a grant id that is no string raises in `is_well_formed`, before the `try` block and so past its `finally`: the `BlocksContext` stays, and the next message without a SecurityContext is handled in it |
| `tenant_stale` | "Process tenant update notifications and keep cache in sync." (`_tenant/tenant_service.py:292`) | a read answered before a change is cached after its notification was applied, and stays |
| `log_stop` | "flush remaining logs on shutdown" (`_lmt/mongo_log_exporter.py:127`) | `stop()` returns with records in the queue |

The rest of the properties hold with the exceptions they name. These are worth a
reader's attention:

* `SingleFlight` excepts the grants in `torn`: those whose lock was dropped from
  `_locks` under running calls. `invalidate` does so by intention
  (`token_provider.py:130`). The sweep does so when a call has released the lock
  and the waiter it woke has not run yet, while the cached token has run into its
  margin (`token_provider.py:223`): the waiter takes a lock nobody else will
  find, and a newcomer files another one.
* The sweep visits cached tokens only, so the lock of a grant whose exchange failed
  stays in `_locks` until the grant is released (`token_provider.py:218`).
* `ContextIsolation` excepts the context that a message of `azure_malformed` left behind
  (`Leaking`), and only where the message it meets has no SecurityContext of its
  own. Messages of this library carry a string or no grant id at all; the property
  is one that another sender sets (`azure_message_worker.py:124` keeps its type). The
  grant id never leaks: it is set, or raises, for each message.
* A failed Azure send is repeated with the same grant
  (`azure_message_client.py:166`); when the first attempt arrived after all, the
  first copy to be settled deletes the grant of the second. `UnsettledKeepsGrant`
  speaks of messages sent once.
* A RabbitMQ message that is routed to several queues carries one grant, and so does
  a copy that is delivered again because its ACK was lost
  (`rabbit_message_worker.py:171`, `:177`). `UnsettledKeepsGrant` excepts both.
* The read of a held grant is not guarded (`grant_factory.py:148`): when the store
  fails there, the message is not sent, although a failing write would only cost
  it the grant.
* A span that BSON cannot encode ends the trace worker
  (`mongo_trace_exporter.py:101`); `EverySpanSettles` excepts what is queued then.
* `InSyncUnlessOvertaken` excepts the notifications that were missed: a process that was
  not subscribed, or whose listener ended (`redis_client.py:481`), keeps what it has
  cached, because entries have no expiry (`tenant_service.py:274`).
* A request that is cancelled while it awaits the shared read of the providers
  cancels that read, and `get_active`, which "never raises", raises a
  `CancelledError` in the others (`StoreRaises`).
* `LockHeld` excepts a handler that began with less than one renewal interval of its
  lock left: a lock runs from the arrival in the prefetch buffer and is not renewed
  there. So neither it nor `EveryCopyEnds`, which holds because deliveries are bounded,
  says that a prefetched message keeps its lock (`azure_message_worker.py:72`).
  `stop()` misses an event that another handler with the same `message_id`
  overwrote (`azure_message_worker.py:146`); that renewal ends all the same, because
  it fails on the closed receiver.
* No `RedisClient` has the `_logger` its error paths use (`redis_client.py:481`,
  `:486`): a handler that raises ends the listener, and its `AttributeError` comes out
  of the `unsubscribe_async` or `dispose_async` that awaits it, before the tables
  are cleared. `dispose_async` also breaks off when a listener is added or removed
  while it waits (`:513`), and `dispose()` leaves every listener running (`:498`).
  `ListenersAreKnown` speaks of channels whose calls did not overlap.
* `close()` of the RabbitMQ client takes no lock. When it meets an initialisation it
  may leave the new connection open, and so does an initialisation that fails after
  the connection was made (`rabbit_message_client.py:69`, `:194`): `OneConnection`
  excepts these, the connections in `abandoned`, and shows that there are no others.
* A rotated certificate is accepted for the time of an entry in the cache and of one
  fetch with its write: a reader that fetched before the rotation may write the old bytes after
  it (`auth.py:443`, `:665`). The time to live is computed before the write
  (`auth.py:430`) and counted from it, so the last use of a tenant's old certificate may be later
  than its own end, or than sixty seconds after the rotation, by what the fetch and the write take
  (`LastUse`).
* A discovery document that is no JSON object, or an endpoint that `urlparse` refuses,
  raises out of `get_token_endpoint_async` although a fallback is configured
  (`endpoint_resolver.py:142`, `:147`).
* `cleanup()` of the worker application stops the log exporter after the message
  worker, so not at all when that raises (`_core/worker.py:124`).

### Fairness

Weak fairness only, and only where the code or its environment is bound to go on:
the event loop runs a task that can run, and a worker thread its loop; a handler
ends; the broker delivers what is queued, and gives up a lock nobody holds; an
HTTP exchange ends within its time-out; the database answers or fails; what a call
awaits under a lock (a discovery, a send, a connection) ends one way or the other;
a renewal that is due is made before the clock moves on, and time passes while a
message is handled; the clean-up of a listener ends or raises. Nothing is assumed of callers, operators, crashes, cancellations or lost connections.
The safety runs check `Spec`; their properties need no fairness.
In `TokenProvider`, time passes only when no woken task is waiting to run
(`LoopIsPrompt`), and in `ProviderStore` a read takes at most `ReadTime`: the code
sets no limit there, so this is an assumption on the driver, and `ServedRecently`
is stated relative to it.

## 4. Proofs

Every safety invariant and action property that a run of section 3 shows on a small
instance is proved for every value of the constants that satisfies the modules'
named assumptions: any number of callers, grants, messages, workers, tasks, queues
and chain lengths. `tlapm` checks all eight modules.

The assumptions say no more than what the constants are: numbers are natural, a batch, a queue
and an interval are not zero (`ExporterAssumption`, `WorkersAssumption`), values
that stand for "none" are none of the real ones (`TenantAssumption`,
`ContextAssumption`), the sets that are counted are finite
(`StoreAssumption`, `WorkersAssumption`). Three are about the
configuration: an exchange times out within the renewal margin
(`_delegation/constants.py`); a lock lasts longer than the interval at which it is
renewed (300 s, `_message/azure/config_azure_service_bus.py:41`, and 270 s,
`_message/message_configuration.py:24`); and the keys of an external provider sign no
Blocks token (`KindAssumption`).

Each proof rests on an inductive invariant, a conjunction of named parts; the
invariants were model-checked on the instance of the module's run before they
were proved.

* `TokenProviderProofs`. Type correctness (`TypeCorrect`) has to follow what a
  cancelled or failed caller leaves in the queues of `asyncio.Lock`.
  `ServedAlive` rests on `AliveInv`: a cached token was issued at most
  `Timeout` before its expiry was computed, so the renewal margin absorbs the
  delay (assumption `Timeout <= Margin`, from `_delegation/constants.py`).
  `SingleFlightHolds` rests on `LockInv`: an exchange holds its lock alone
  (`MutexInv`), and every running call of a grant that is not torn uses the lock
  filed under it (`UntornInv`). The exception is not an escape: `NothingTorn`
  proves that it is empty when grants are released only without running calls
  and tokens outlive the margin, by an invariant of its own (`FlightInv`), whose
  point is `CacheInv`: a released lock with a waiter about to run has a usable
  token in the cache, and that is why the sweep spares it. `NoneRedundant` is
  the re-check under the lock.
* `AzureDeliveryProofs`. `CompletedIsDone` and `ContextIsolated` follow from
  `SettleInv`, which says what each stage of a loop knows of its copy and its
  context variables; that an idle loop has no context but a leaked one (`ContextInv`) is
  what carries from message to message. `ImplementsSettlement` maps each step to a step of
  `GrantSettlement` or a stutter; the hard one is `Release`, which needs that a
  releasing loop's copy was settled as done, though its lock may be long lost.
  `UnsettledKeeps` adds `DeletedInv`: a deleted grant has a completed copy.
* `RabbitDeliveryProofs`. The same two results; `KeepInv` needs the history of lost
  acknowledgements, because a copy the broker still has may have been
  acknowledged by the worker.
* `GrantChainProofs`. `ChainKeeps` is inductive over the chain through
  `WorkerInv` (what a worker read is the record of the message it handles) and
  two lemmas on `Chained` and `Direct`. `ChainContinues` says that the check
  which keeps a chain from changing hands refuses no chain nobody redirected.
* `TenantCacheProofs`. `OneLoad` and `NoLoadOutlivesItsCalls` rest on `LoadInv`,
  which ties a registered read to the calls that wait for it: that a cancelled
  caller, which cancels the read, also has it taken out of the register, is what
  keeps a dead read from being joined. `CacheInSync` needs `SyncInv`: the last scheduled update of a tenant carries
  its present record (`LastUpdateIsCurrent`), and once its updates are handled
  neither the cache nor a read that ended but has not resumed holds an older one
  (`NothingStale`), unless the last update met such a read, which is what the
  property excepts.
* `AuthenticationProofs`. `StoreInv` is about the provider store: a running read
  is the registered one or was abandoned by an invalidation, a registered read is
  awaited and within its time, and what differs between the cache and the active
  rows is explained by a change within the lifetime. `BoundedStaleness` is an
  action property that follows from it. `AuthInv` says of each request, at each
  stage, what it knows: which provider it chose and why no other takes the token,
  which contexts it may set, and that a token which reaches the fallback is not
  the tenant's own. The three properties of the requests follow from it.
* `BackgroundWorkersProofs`. The exporters rest on one idea: a relation on the
  records that holds along the line from what is stored, through the batch, to the
  queue (`Ordered`, `Before`). With "same thread, smaller number" (`Earlier`) it gives the order
  and, because nothing is earlier than itself, that no record is in two places;
  with "another span" (`Other`) it gives the latter for the queue and the three
  buffers of the trace exporter. `FlushDrains` adds that the promised spans are
  older than anything put later. `LockKept` is inductive through `InTime`: while
  the task waits, the lock outlasts the wait. `NoStrayListener` is inductive
  through `ChannelInv`: a live listener is the one the table names or the one that
  the single call, which took it out, waits for; hence the listeners that
  `dispose_async` visited have ended when it clears the tables.
* `SharedResourcesProofs`. One invariant for each component. The lines of waiters in front
  of an `asyncio.Lock` (resolver, senders, connection) share lemmas on sequences without
  repetition (`IsLine`): joining, leaving by cancellation, and passing the lock
  on. `ResolverInv`, `SendersInv`, `RabbitInv`: who uses the resource is the head
  of the line. `MongoInv` counts the clients of a connection; `CertificateInv`
  bounds how long a fetched certificate can still be written, with which time to
  live (`TimesToLive`, as counted at the fetch), and until when what was written
  can be read (`EntryEnds`).

The theorems of the two compositions are about all behaviours of the composition,
hence of each component.

Model-checked only: everything under fairness (`EveryCallReturns`,
`EveryCopyEnds`, `EveryWaitEnds`), which is out of the prover's reach, and the four
runs that show a violation. The type invariants of `TokenProvider`, the deliveries and
`GrantChain` are theorems and are not checked by a run again; those of the other
modules are both.

## 5. Not modelled

* Signatures, certificates, key sets and decryption: a token verifies under the key
  that signed it. `Authentication` and `CertificateCache` are not composed: a
  certificate is read or not in the one, and has an age but no token in the other.
* In `AzureDelivery` a lock may be lost at any moment; how it is renewed is the
  subject of `AzureRenewal`, which has no settlement. Topics and their
  subscriptions run through the same loop; `run()` reads a `subscription_name` that
  `MessageConfiguration` does not have (`azure_message_worker.py:78`).
* `run()` and `stop()` of the RabbitMQ worker: the application calls `stop()` after
  `run()` ended, and what it closes is a lost connection of `RabbitDelivery`. The
  reconnection of a robust connection belongs to the library.
* The impersonation fields of a grant record, whose session id does not travel with
  a message (`grant_store.py:99`, `blocks_context.py:123`), and the request
  signature of an exchange.
* Claim extraction beyond "a subject resolves, or not" and "the mapped roles"; the
  masking of transported contexts; domain and origin parsing: functions of their
  arguments, whose results the models tell apart no further.
* Start-up and clean-up (`_core`): one task that starts the parts in order and stops
  two of them; no step of another actor falls between. The message registry, the
  subscription usage, the get and set operations of Redis, data classes and
  cryptographic calls: no state, or state that is written once.

## 6. Plan

Done, in the order of importance: token provider, settlement and delivery, grant
chains, tenant cache, exporters, provider store and authentication; then the
workers beside the requests (lock renewal, listeners) and what calls share
(resolver, senders, connection, clients, certificates).

Every safety property of the runs is proved. What a proof could still add: the
refinement of an abstract specification of the tenant cache and of the two
exporters (a record is handed over, then stored or lost, once), in the manner of
`GrantSettlement`; and bounds of the lag of a tenant's changes, as
`CertificateCache` has one.

Left of the model: a composition of `RedisPubSub` and `TenantCache` in place of the
latter's `subscribed` flag, and of `CertificateCache` and `Authentication`.

Runs are kept few: components without shared state are checked as alternatives of
one instance, a new module joins the run it belongs to.
