# A TLA+ development for dilu-go-kit

dilu-go-kit is a Go kit for services: an application shell (`boot`), service
discovery with etcd or Consul (`registry`, `contrib/registry`), HTTP and gRPC
clients with retries and a circuit breaker (`clientx`, `grpcx`), Redis stream
consumers (`contrib/stream/redis`), and middleware. This directory models the
parts of it whose behaviour depends on order, time and failure. Every module is
translated from the code; `PROJECT.json` maps each definition to the lines it
stands for.

## 1. Inventory

| Part | State it keeps | Operations | What is hard |
|---|---|---|---|
| App lifecycle (`boot/app.go`) | databases, listeners, servers, started components, registration, watcher, once-guards | `New`, `Run`, `shutdown`, `Close`, component start and stop | every step may fail or hang; `Close` and `Run` run concurrently; signals |
| Component order (`boot/components.go`) | none | depth-first ordering by dependencies | diamonds, cycles, unknown names |
| Readiness (`boot/app.go`) | cached verdict, evaluation lock, in-flight counter | `readinessOK`, `AddReadinessCheck`, `SetReadinessCacheTTL` | checks that ignore their context, concurrent probes |
| Remote configuration (`boot/app.go`, `boot/remote.go`, `WatchKey` of the backends) | published configuration, `reloadMu`, watch revision per key | watch, fetch, merge, validate, publish | two watchers, non-atomic fetch, watches that break |
| Configuration and `New` (`boot/config.go`, `security.go`, `tls.go`, `db.go`, `redis.go`) | configuration, its local copy, resources acquired so far | `LoadBaseConfig`, `MergeRemoteConfig`, `Validate`, `New` | precedence of file, environment and remote layers; policy before contact; release of what was acquired when a later step fails |
| Upstream watch (`registry/registry.go`) | last known good set, outage clock, timers, last snapshot | `WatchUpstreamsWithOptions` | lost events, failing or hanging `Discover`, a full channel |
| Resolver (`registry/resolver.go`) | cache of services, round-robin counter | `NewResolver`, `Resolve`, `Close` | waits for the watch goroutine |
| etcd registry (`contrib/registry/etcd`) | lease and cancel function per instance, keep-alive loops | `Register`, `Deregister`, `Close`, `Discover`, `Watch`, `WatchKey` | lost replies, expiring leases, loops of the past |
| Consul registry (`contrib/registry/consul`) | check and cancel function per instance, TTL refreshers | the same operations | refresh after the service was reaped, blocking queries |
| Circuit breaker (`clientx/breaker.go`) | state, failure count, deadline, generation, probe slot | `Do`, `State` | late results, panics, concurrent callers |
| Retry and HTTP client (`clientx/client.go`, `http.go`) | per call: attempt, backoff, budget, body | `HTTPClient.Do`, response reads | nested deadlines, ownership of bodies |
| Redis stream consumer (`contrib/stream/redis`) | group flag, claim cursor, backoff, report counters | `RunGroupConsumer`, `ReadGroup`, `ClaimStale`, `Ack`, `EnsureGroup`, `Publish` | crashes between delivery and acknowledgement, lost groups |
| In-memory rate limiter (`mid/ratelimit.go`) | per shard: a fixed window per client; the cleanup goroutine, `stop`, `done`, `closeOnce` | `Middleware`, `cleanupExpired`, `Close` | a full shard, windows that end while the cleanup works with an old clock reading, concurrent `Close` |
| Redis rate limiter (`contrib/mid/ratelimit/redis`) | a counter with a time to live per client, in Redis | the script, `Middleware` | scripts whose reply is lost and that are sent again, several instances |
| gRPC server policy (`mid/grpc_policy.go`, `mid/grpc.go`) | tokens of the concurrency limiter | limiter, default deadlines, recovery | panics, handlers that outlive their caller, retries of calls that still run |
| gRPC client (`grpcx`, `mid/grpc_client.go`) | default deadline, retry policy, resolver state | dial, call, resolve | deadlines of caller, client and server meet; which calls are repeated |
| Migrations (`contrib/migrate/postgres`) | files, version | allocate a version, create a file pair | two runs at once |
| Middleware, JWT, notifier, observability, metadata, responses, CLI, examples | none that outlives a call | | |

How they interact: `New` loads and validates the configuration, merges the
remote layers and opens the resources; `Run` starts servers, registers the
instance (etcd or Consul), starts the configuration watcher and the components,
and waits for a signal or a server error; `shutdown` and `Close` undo this.
`/ready` calls `readinessOK`. The configuration watcher calls `WatchKey` of the
backend once per key, and each event runs a callback that rebuilds and publishes
the configuration. Client code asks a `Resolver`, fed by
`WatchUpstreamsWithOptions` over the backend's `Watch` and `Discover`, for an
address, and calls it through an `HTTPClient`, whose `Do` runs under a `Breaker`.

What makes each part correct, and the steps that can go wrong, are the
`hazards` of `PROJECT.json`: each is given at the line where it bites, with the
properties that would notice it.

## 2. Plan

The order follows the importance of the behaviour: first what starts, announces
and ends a service, then how others find and call it, then the rest.

Modelled and checked: Breaker and HTTPClient under Client; Upstreams; Startup,
Components and Lifecycle; EtcdLease, ConsulLease and ServiceWatch under Registry;
ConsumerLoop and StreamGroup under StreamConsumer; Readiness; HotReload;
RateLimiter, RedisRateLimiter and GRPCCalls under Admission. Abstract
specifications, with the modules that implement them: FixedWindow (both
limiters), AtLeastOnce (StreamGroup). Proved: every invariant and every action
property that a passing run checks, and both refinements but for their liveness;
section 6 says how. Next, in this order:

1. **Registration**, an abstract specification of what Register and Deregister
   promise (wanted, in flight, present), for EtcdLease and ConsulLease in place of
   `Withdraws`, with the proof of its safety part.
2. The gRPC resolver of `grpcx/registry_resolver.go` as a second consumer of
   Upstreams, and the rotation of `Resolve`.

Startup and Components are a part of Lifecycle (EXTENDS), because a failed `Run`
closes what `New` opened. Registry, Client, StreamConsumer and Admission put the
parts of one service side by side (the ways a registry is used; a call's breaker
and its attempts; the loop of a consumer and the group it works on; the guards of
a route): a variable chosen initially says which part a behaviour is about, and
the others keep still, so that the run explores their sum and not their product.
They may: what connects these parts is one call or one channel, which each has at
its boundary. HTTPClient has a breaker that admits or refuses; Breaker has an `fn`
that returns, fails or panics; a failed poll of StreamGroup is one visit to
`backoff`, where ConsumerLoop begins. The other modules stand alone with such a
boundary: a `Discover` that may hang, a snapshot channel, a check that may not
return.

## 3. Modules

| Module | Models | State and actions |
|---|---|---|
| `Breaker` | `clientx/breaker.go` | The fields of `Breaker`, a clock, and one call per goroutine. `Admit`/`Reject` are `before()`, `Return` is `fn` followed by `after()`, `Panic` leaves without `after()` as the code does, `Observe` is `State()`. |
| `Client`, `MCClient` | `HTTPClient` with its `Breaker` | Breaker and HTTPClient, and what a caller of `HTTPClient.Do` may rely on. |
| `ClientProofs` | | Theorems about `Breaker` and `HTTPClient`. |
| `Upstreams` | `registry/registry.go` 203-400, 570-614, `registry/resolver.go` | One step per communication of the watching goroutine: a `select` case, a return of `Discover`, the state update and comparison of `publish`, the send. The registry is external: it may be up, down or hung, and events may be lost. The resolver's goroutine receives snapshots; `Close` is `Cancel` followed by the wait for `done`. |
| `UpstreamsProofs` | | Theorems about `Upstreams`. |
| `Startup` | `boot.New` with `boot/config.go`, `boot/remote.go`, `db.go`, `redis.go` | One step per part of `New` that can fail: load, policy, fetch of each layer, merge, secrets, validation, and each resource, whose error path names what it closes. A configuration keeps the fields the policy, the secrets and the resources depend on. |
| `Components` | `boot/components.go` | `orderComponents` as a traversal: `Begin`, then one `Move` per turn of the loop over the components or of a loop over dependencies; the calls of `visit` under way are its `path`. A reference: the orders that respect the dependencies. |
| `Lifecycle`, `MCLifecycle` | `boot/app.go` 374-930, over `Startup` and `Components` | Two threads, `New` and `Run`, and a caller of `Close`, with a place per step of `Run`, of `shutdown` and of `Close`; one state per component, any dependencies; servers, requests, watcher, signals. Timeouts may fire at any time and are remembered in `gaveUp`. |
| `LifecycleProofs` | | Theorems about `orderComponents`, `New`, `Run`, `shutdown` and `Close`. |
| `EtcdLease` | registration in `contrib/registry/etcd/registry.go` | `Register`, `keepAliveLoop`, `Deregister`, `Close`, one step per request. The etcd server with its leases is external; each request may fail before or after it took effect. |
| `ConsulLease` | registration in `contrib/registry/consul/registry.go` | The same operations and `refreshTTL`, for TTL and HTTP checks, over an agent that expires, probes and reaps. `Close` sends two requests of different effect: the first removes the service with its check, the second only a check. |
| `ServiceWatch` | `Watch` of both backends | The backend as the sequence of its writes; the watcher between its request, its sends and its waits; a bounded channel and a consumer with a view. |
| `Registry` | `registry.Registry` | The three above as the ways a registry is used, and what a caller may expect of any backend. |
| `RegistryProofs` | | Theorems about registration in both backends and about `Watch`. |
| `ConsumerLoop` | `runConsumerLoop` | The loop's local variables, polls that succeed or fail with an error of some kind, the rate-limited report and the backoff. |
| `AtLeastOnce` | | What a consumer group promises: a published message stays owed until a handler has finished it, and while consumers run it is handled. |
| `StreamGroup` | `RunGroupConsumer`, `stream.go` | Consumers as processes that crash and restart, over a Redis group with its pending entries. A failed poll is one visit to `backoff`; ConsumerLoop models what happens there. `Delivery` maps it to AtLeastOnce. |
| `StreamConsumer` | `RunGroupConsumer` | ConsumerLoop and StreamGroup. |
| `StreamConsumerProofs` | | Theorems about its loop and its group. |
| `Readiness`, `MCReadiness` | `readinessOK` and the checks | Probers at the places between lock operations and channel operations; check goroutines with the counter. |
| `ReadinessProofs` | | Theorems about `Readiness`. |
| `HotReload` | `watchRemoteConfig`, `WatchRemoteConfigTree`, `watchEtcdKey`, Consul's `WatchKey`, the merge and `validateRuntimeConfigChange` | A store with revisions, of etcd or Consul, one goroutine per key, the lock, the two fetches of a reload, publication. |
| `HotReloadProofs` | | Theorems about `HotReload`. |
| `FixedWindow` | | What a fixed-window limiter promises: a client has at most one open window, which lasts its full time, and spends at most `Max` permissions in it. |
| `RateLimiter` | `mid/ratelimit.go` | One shard. A request is one step, for it works under the shard's lock, and its cases are actions; the cleanup goroutine reads the clock once and comes to the shard later; `Close` is `closeOnce.Do` with its waiters. |
| `RedisRateLimiter` | `contrib/mid/ratelimit/redis/redis.go` | The script is one step in Redis; requests to it and replies may be lost and the script sent again. |
| `GRPCCalls` | `mid/grpc_client.go`, `mid/grpc_policy.go`, `mid/grpc.go`, the retry policy of `grpcx/dial.go` | A call at the client, its attempts at the server, the time left on both sides, the tokens. gRPC is external: it carries deadlines, ends calls, resets streams and repeats attempts as the service config says. |
| `Admission`, `MCAdmission` | the guards of a route | RateLimiter, RedisRateLimiter and GRPCCalls, and what their callers may rely on. |
| `AdmissionProofs` | | Theorems about the two limiters and gRPC calls. |
| `HTTPClient` | `HTTPClient.Do`, `Do`, `normalizeRetryConfig`, the response body | One call whose inputs are chosen initially; attempts with nested deadlines, backoffs, the caller reading the body. |

Definitions marked *Mutant* are small plausible mistakes in the definition that
follows them. No specification uses them; putting one in place of its
definition makes the property named in `PROJECT.json` fail, which shows that the
property can notice a mistake of that kind.

Data is abstracted to what the properties tell apart. Names, addresses and
payloads are members of small sets; time is a counter of ticks or an age capped
at the limit it is compared with; errors are classes. What that leaves out is
said in the header of each module.

## 4. Runs

`tlc -config <cfg> <module>`; sizes are distinct states.

| Run | Shows | Bounds and why they are enough |
|---|---|---|
| `client` | One probe at a time; an open circuit admits nothing before its cooldown; results of an earlier generation change nothing; a half-open circuit leaves that state unless its probe panicked. Attempts and bodies stay within their limits, an attempt within its timeout and the budget, no body leaks, `Do` returns. | Three goroutines are one stale call, one probe and one more caller; threshold 2 makes the count matter; six ticks hold three trips with a cooldown of 2. Attempts unset, 1 and excessive; backoffs unset and excessive; bodies below, at and above the limit. |
| `admission` | A window that is still open is neither forgotten nor begun anew, so that no client gets more than two windows' permissions in the time of one; nobody is refused without cause; tokens are the handlers under way; a method that is not declared idempotent runs once; a caller's deadline stands; calls, handlers, windows and `Close` end. | Three clients for a shard of one (64 shards share 100000 in the code; it only has to fill), two permissions, a cleanup that is a tick late, two callers of `Close`; two requests of two clients in Redis and a lost message; two calls, one token, two attempts, a broken connection, deadlines up to two ticks, a default on either side. |
| `grpc_stream` | Finding, see below. | |
| `upstreams` | The fallback expires without a further event, is not prolonged by further failures, the cache converges to the registry although events are lost, `Close` returns although `Discover` hangs. | An accepted and a rejected instance, grace and resync of two ticks, a channel of two (eight in the code: it only has to fill). |
| `upstreams_hang` | Finding, see below. | |
| `lifecycle` | What is contacted without TLS was allowed to be; a failed `New` leaks nothing; the environment wins over file and remote layers; announcements match what serves; components start after what they depend on, stop in reverse order, and none is left up; no server listens at the end, and only a drain that was given up leaves requests; resources outlive their users; the instance is deregistered at the end; a signal ends the process. | Six files that differ in mode, policy, transports and secrets, all environments, layers that are missing, broken, forbidden or ordinary; two databases, two components (the least with an order) and every dependency graph of them, with cycles and unknown names; an HTTP and a pprof server; each step may fail, each wait time out. `OrderAssumption` compares the order with the reference for every graph of three components. |
| `startup_release` | Finding, see below. | As above, without components. |
| `registry` | Maps and loops agree, in both backends; a watcher tells of each instance in the order of its history, one event for several writes at times, and a consumer that has read everything of a watcher that has heard of every write knows the instances as they are, but for data in etcd that was ever invalid; nothing of an instance stays behind once the client holds nothing, except the service a failed `Close` left in Consul without its check (section 5), and only such a `Close` does that; a registered instance stays found; `Close` returns, and a watch whose context ended closes its channel although nobody reads. | Two `Register` calls, two faults, a lease per attempt that these allow; two instances, three writes, one broken stream or failed query, a channel of one. |
| `stream_consumer` | Every failure is reported or counted, only repetitions are withheld, a recovery report tells the truth, cancellation ends the loop. At-least-once: what was delivered and not acknowledged stays claimable, handlers see valid messages only, and while every message is valid each is handled. | Two kinds of errors, three attempts, three ticks with a report interval of 2 and backoffs of 1, 2, 3. Two consumers, three messages in batches of two (so that a claim needs its cursor), one fault of any kind. |
| `readiness` | Probes do not pile up check goroutines, the counter is exact, a cached "ready" was earned by one evaluation, every probe is answered. | Two probers, two checks, the cache on and off. |
| `hot_reload` | Nothing unacceptable is published, a reload never publishes an older read, the configuration converges to the store, watchers end. | Both backends, two keys, two writes of any layer but the first, one failed call of any kind. |
| `http_client_body` | Finding, see below. | |

`CHECK_DEADLOCK FALSE` is set where the system may come to rest: a closed
registration, an ended watch or consumer loop, a call that returned, bounded
clocks.

### Fairness

Safety needs none. Liveness assumes: goroutines that can run do run (weak
fairness of each thread's own step); the clock ticks; a `select` that finds a
case ready again and again takes it, because Go chooses among ready cases at
random (strong fairness of the `select` cases in Upstreams and in RateLimiter's
cleanup); a mutex that is free again and again is granted, because Go's mutexes
have a starvation mode (strong fairness of `Lock` in Readiness and `LockReload`
in HotReload); requests under a context with a deadline return. A composite
module has the fairness of its parts, each for the behaviours of that part.

Nothing is assumed of the environment: registries need not recover, checks and
components need not return, servers need not answer, the reader of an event
channel need not read, nobody has to call anything. A reload's fetch has no
deadline (boot/remote.go:360 uses `context.Background()`), so HotReload does not
assume that it ends: its liveness properties name the fetch that hangs. Leases,
TTLs and critical checks do run out, since the servers count time themselves. Of
gRPC it is assumed that it delivers or resets, and that a handler returns once its
context is over; a handler inside `RecvMsg` of a stream is not ended by the
context the server's interceptor wraps, only by gRPC's own. Where a result needs
such an assumption the property states it as a premise.

## 5. Findings

Runs that TLC refutes; each property states a sentence of the repository.

* **`upstreams_hang`**: the stale timer's handler calls `Discover(watchCtx, ...)`
  without a deadline (registry/registry.go:376). While it hangs, the resolver
  keeps serving the last known good instances, although they "expire after
  StaleGracePeriod instead of remaining routable indefinitely".
* **`startup_release`**: `New` calls `validateInlineSecrets` again (boot/app.go:201)
  on a configuration that already has the environment's overrides, so in release
  mode a secret that was injected by `DATABASE_DSN`, `REDIS_PASSWORD` or
  `JWT_SECRET`, as the README asks, is refused as an inline secret.
* **`http_client_body`**: `single` defers the cancellation of the attempt's
  context (clientx/http.go:173), so the context of a successful response has
  ended before the caller, who "owns" the body, can read it.

* **`grpc_stream`**: the client's stream interceptor cancels the call's context
  when the caller closes its sending side (mid/grpc_client.go:55), so a stream to
  which the default deadline was given can lose the answers that follow.

Further observations, made while modelling; no property states them:

* A `Close` while `Run` is still starting uses up `componentStopOnce` when nothing
  is started yet (boot/app.go:702); components that start afterwards are never
  stopped. Lifecycle's closer calls `Close` when `Run` is in `Close` or has
  returned, as the examples do with `defer`.
* A remote layer may switch off the `requireTLS` of the file: only the environment's
  `REQUIRE_TLS` is final. `PolicyFirst` speaks of the policy of each moment.
* In release mode a database DSN is both required (by `Validate`) and refused (by
  `validateInlineSecrets`): no service with a database starts (boot/app.go:201).
* The etcd watch keeps an instance whose data became invalid until its next
  snapshot, while `Discover` drops it at once (`NeverInvalid` in ServiceWatch).
* A service that Consul reaped is never registered again: `refreshTTL` only logs
  (consul registry.go:295).
* `Close` of the Consul client deregisters the service and, whatever came of that,
  its check (consul registry.go:538-539). If only the first request fails, the
  service stays without a check: no check of it is critical, so `Discover` returns
  it, and nothing reaps it. `NoGhost` in ConsulLease leaves this state out
  (`"unchecked"`), and `OnlyFailedCloseUnchecks` says that nothing else leads to it.
  A process that `boot` runs calls `Deregister` first, after which `Close` has
  nothing to deregister.
* A reload fetches its layers without a deadline (boot/remote.go:360): a store
  that hangs keeps `reloadMu`, and the shutdown waiting for the watchers, for as
  long as it hangs.
* `NewResolver` returns before its goroutine has received the first snapshot, so
  a `Resolve` right after it may say that there is no healthy instance, although
  "a successful return always includes an initial snapshot".
* `Resolve` converts a 64-bit counter with `int(next)`: on a 32-bit build it is
  negative after 2^31 calls.
* A SIGTERM between registration and `signal.Notify` (boot/app.go:505) kills the
  process without deregistration; the key stays until its lease expires.
* One message that `validateMessageValues` refuses makes `ReadGroup` and
  `ClaimStale` fail for its whole batch, again and again (stream.go:191); valid
  messages beside it are never handled. `DeliversAtLeastOnce` therefore promises
  handling for streams without invalid messages.
* `readinessInFlight` is lowered after the result is delivered (boot/app.go:769):
  with the cache disabled, a probe right after another may be refused although
  every check passed.
* A reload whose fetch fails is dropped and not repeated (boot/app.go:967).
* The default `Retryable` takes every error of `http.Client.Do` for transient
  (clientx/http.go:73), because `*url.Error` is a `net.Error`.
* Registering an instance a second time in etcd while the first loop re-registers
  may leave the key attached to a lease that is then revoked (etcd
  registry.go:172).
* A probe whose `fn` panics keeps the half-open slot for ever
  (clientx/breaker.go:90): theorem `LostProbeIsForEver`.

## 6. Proofs

`tlapm` checks every obligation of the eight modules `ClientProofs`,
`UpstreamsProofs`, `LifecycleProofs`, `RegistryProofs`, `StreamConsumerProofs`,
`ReadinessProofs`, `HotReloadProofs` and `AdmissionProofs`. They assume only the named
assumptions on the constants: positive thresholds, limits and grace periods; finite
sets where the code counts or keeps a map (checks, instances, registrations, clients,
calls); inputs of the shape the loaders return (`InputsAssumption`, `LayersAssumption`,
`ScenariosAssumption`). TLC evaluates each on the runs. HTTPClient and StreamGroup name
their conditions `ConstantsOK`, because they are used through INSTANCE; the modules
that instantiate them assume it. Each proof has one lemma per action or group of
actions, and an inductive invariant whose parts beyond the checked one are explained
here. TLC checked every one of them before it was proved.

**Breaker.** `IndInv` is the conjunction of `TypeOK`, `SingleProbe`,
`ProbeAccounted`, `CountMatchesState` and two facts that make them inductive:
`ProbePermits`, a permit of the current generation is a probe's exactly in
`HalfOpen`, and `DeadlineMatchesTrip`, an open circuit has a deadline of one
cooldown after the last trip. `SingleProbe` also bounds the generation of every
permit by the breaker's. The single probe alone is not inductive: a stale permit
could come back in the wrong state, which the generations exclude. From `IndInv`
follow, for any set of callers, threshold and cooldown: `BreakerInv` (types and the
single probe), the slot's accounting, the count's consistency, and three action
properties: the cooldown is respected, stale results are ignored, and a lost
probe is for ever.

**HTTPClient.** `DoIndInv` follows one call of `Do`. `Attempts` counts the requests
with the attempts, and says where an attempt must be left; a call that may not be
repeated is never at a back-off. `RequestBody` says that attempts without the buffered
copy consume the body the caller passed, and that the copy exists before a second
attempt; without it the bound on what is read of that body is not inductive.
`Deadlines` nests the attempt in the budget and in its own timeout. `ResponseBody` says that only the body of
the last attempt can be open, `Reading` that what was read and what may still be read
of it add up to the limit. `HTTPInv`, `NoBodyLeaks` and `WithinBudget` follow for any
attempts, budgets, bodies and answers.

**Lifecycle.** `AppInd` needs no assumption about the components. For `New`,
`ConfigInv` says which checks the configuration has passed at each step, `PolicyInv`
that whatever was contacted was allowed by the configuration of that moment, and
`OpenedInv` which resources a failing step finds open, so that its error path closes
all of them: `PolicyFirst`, `FailedNewLeaksNothing` and, of `Inv`,
`RegisteredIsReachable` and `EnvironmentWins`. For `Run` and `Close`, `ControlInv` says
where each of the two goroutines can be when a once-guard is free, taken or done,
`ServersInv`, `RegistrationInv` and `WatcherInv` what is left of each when a place is
reached, or that the wait for it was given up. `CompInd` is about the components:
`StartPhase` and `StopPhase` say what the loops have done up to their index,
`PhaseInv` when they are under way. `WhatIsAnnouncedHolds`, `CloseLeavesNothing` and
`ReleaseComesLast` rest on it.

**orderComponents.** The loops of the components need the order they are given:
`OrderedIsOrder` says that it has every component once, and each after those it depends
on, for any number of components and whatever `DependsOn` returns. `TraversalInv` is
kept by every move of the traversal. Of a component on the path it says that the
dependencies it has come past are in the order, or that the last of them is next on the
path (`Dealt`); of a component in the order, that its dependencies come before it
(`InOrder`); of the components before `root`, that they are in the order or that the
last of them is at the head of the path (`RootsDone`). That it holds after every move
is an induction, for which the least number of moves that breaks it is taken
(`LeastFailure`, from the well-foundedness of the naturals), and so is that the
recursive function in the definition is what its equation says (`TraversalExists`).

**Registry.** `EtcdIndInv` and `ConsulIndInv` add to the agreement of maps and loops
what makes it inductive: how far the Register call of a loop is (`LoopsOfRegisters`),
that only a cancelled loop leaves its cycle, and that who is not in the map any more
was cancelled in the same critical section. For `OnlyFailedCloseUnchecks`,
`CloseRequests` says that no Register is under way in a `Close`, and that the service
is gone or a request has failed when `Close` asks for the check. `WatchIndInv` is about events under way:
`Ordered`, they are in the order of their instance's history; `Believed`, the last one
of an instance, or without one the consumer's view, is what the watcher knows;
`Informed`, and that is what the writes say that the watcher was told of. `RegistryInv`
follows for any registrations, faults, leases, writes, broken streams and channel.

**ConsumerLoop.** `LoopIndInv` adds `OutageConsistent` to the three invariants:
inside an outage the totals are positive, the start of the outage is not later
than the last report, and the counters since the last report add up to the
total. `LoopInv` (types and no failure lost), `WithheldIsEquivalent` and the
action property `RecoverySummarisesOutage` follow for all errors, backoffs and
report intervals.

**StreamConsumer.** `GroupInv` is made inductive by two facts: nothing is
delivered of a group that is gone, so what was delivered is accounted for whether
or not the group exists; and a batch holds published messages, so that an invalid
one published later is not among them. From this follows too that every step of
the group is a step of AtLeastOnce, or none: `DeliversAtLeastOnce` but for its
liveness.

**Upstreams.** `Inv` says that an announced fallback has its timer and that
snapshots are news; it holds because of what the goroutine knows while it prepares
one. `Announced` says how the last snapshot agrees with the fallback state: it is
stale exactly in an outage, and then holds the last known good instances or, once
the grace period is over, none; and of the snapshot about to be sent, that it is
another one, that its timer is armed, and that it does not grow within an outage.
`NothingYet` holds before the first snapshot. `OutageOnlyShrinks` follows: a
fallback withdrawn because its age reached the grace period cannot come back,
since the age does not go back.

**Readiness.** An evaluation ends by counting. `Collecting` says what the count
`remaining` stands for: the results in the channel and the goroutines still
running, all of this evaluation and of different checks; and, while no error was
read, every check asked has passed, waits in the channel or is still running.
`OneEvaluation` makes the holder of `readinessEvalMu` the only prober inside one.
`Inv` (no check twice in flight, an exact counter) and `ReadyIsEarned` follow, for
any probers and finitely many checks, however long they hang.

**HotReload.** That the lock is held does not alone keep a reload from going back:
`FetchedLater` says that what a reload has fetched was read no earlier than what is
published, `ReadInThePast` that what is published was read from the store as it
was, and `OneReload` that no other goroutine can publish meanwhile. `Inv` and
`NeverRollsBack` follow. The least revision an etcd watch delivers next exists by
the well-founded order of the natural numbers.

**Admission.** Both limiters refine `FixedWindow`: `FixedWindows` is a theorem of
the composite specification. `MemoryOK` and `RedisOK` are what the refinement needs
of the shard and of Redis: entries and keys have their shape, and a counter is zero
exactly when its window is over. A cleanup with an old clock reading removes only
windows that are over, a request that finds one opens another, and a script that
is sent again finds the window open and counts in it. The bound on admissions is then
one of `FixedWindow` and proved once for both: `Accounted` relates the age and the
counter of a client's last window to the history of what it spent, which is kept as
"spent at most a ticks ago" for every a. Younger than the window, the history is at
most its counter; older, it is the counter and at most one window more. So two windows
are never exceeded, and who is refused has spent one (`Refusals`). `ShardOK` bounds
the shard and says that whoever `Close` let go saw the goroutine gone. Of gRPC calls,
`Attempted` and `Answered` say how far the attempts of a call can be and that "busy"
was said of an attempt the limiter refused; `OnTime`, that what is left of a caller's
deadline and what has passed add up to it, and that an attempt, however late it
arrives, has no less than its call and no more than the whole; `Tokens`, that the
tokens in use are the handlers under way.

Only model-checked: every liveness property (fairness and ENABLED are out of the
proof system's reach), that of the refinements included, and of orderComponents that
its traversal ends and that it refuses only graphs without an order: `MCLifecycle` has
TLC compare it with the reference (`OrderIsRight`) for the graphs of the run and for
every graph of three components with up to two dependencies each. No safety invariant or action
property of a passing run is left to TLC alone.

## 7. Not modelled

* The checks of `Validate` on single values (one condition, `inRange`), TLS files
  and what the database and Redis drivers do to open a connection (a failure or
  a success; what `gorm.Open` holds when it fails is the driver's business).
* The rotation of `Resolver.Resolve`: its counter only decides which instance of
  the cache is next. The choice of a shard in the rate limiter: shards share
  nothing. The key under which a client is counted.
* Dialling (`grpcx/dial.go` waits for a connection state that gRPC reports) and
  the gRPC resolver over `WatchUpstreams`, which is planned, see section 2; gRPC's
  error table, a function from codes to classes.
* Authentication and access logs of the gRPC server, JWT and the other middleware,
  metadata, responses, error types: each call is a function of its input, with no
  state between calls.
* The notifier: a global pointer that is swapped atomically, and one request.
* Metrics, traces, logs, pprof: output only. Migrations are a command line tool
  that a person runs. The CLI generates code; the examples use the kit.
* The window between `AddComponent` (which writes the checks under another lock)
  and running probes: the documentation has components added before `Run`.
